---- MODULE Spec2Model ----
(***************************************************************************)
(* The LLM response normalisation pipeline of company-lookup-tool:         *)
(*   data-tools/validation/interfaces.ts  validate.analysisData,           *)
(*                                        repairAnalysisData               *)
(*   data-tools/openai.ts                 processCompanyAnalysis and the   *)
(*                                        two generation strategies        *)
(*   src/lib/utils/openaiApi.ts           extractJSONFromLLMResponse       *)
(*   src/lib/schemas/research/*.ts        the Zod schemas                  *)
(*                                                                         *)
(* JavaScript values are records tagged by t.  A string is a sequence of   *)
(* text fragments (concatenated by \o), so that splitting, formatting and  *)
(* the Zod string formats are computed and not assumed.  An object is a    *)
(* function from its keys to values; a key whose value is undefined is     *)
(* dropped, which is what JSON serialisation, Zod's optional() and every   *)
(* property read of the code observe.                                      *)
(***************************************************************************)
EXTENDS Integers, Sequences, FiniteSets, TLC

(* ----------------------------------------------------------------------- *)
(* JavaScript values                                                       *)
(* ----------------------------------------------------------------------- *)
Undef == [t |-> "undefined"]

Null == [t |-> "null"]

Num(n) == [t |-> "num", n |-> n]

Str(s) == [t |-> "str", s |-> s]

S(x) == Str(<<x>>)

Arr(s) == [t |-> "arr", a |-> s]

Strip(f) == [k \in {x \in DOMAIN f : f[x] # Undef} |-> f[k]]

Obj(f) == [t |-> "obj", o |-> Strip(f)]

EmptyObj == Obj(<<>>)

\* typeof x
TypeOf(x) ==
  CASE x.t = "undefined" -> "undefined"
    [] x.t = "num" -> "number"
    [] x.t = "str" -> "string"
    [] OTHER -> "object"

\* the truthiness used by !x, x || y and x ? a : b
Truthy(x) ==
  CASE x.t = "undefined" -> FALSE
    [] x.t = "null" -> FALSE
    [] x.t = "num" -> x.n # 0
    [] x.t = "str" -> x.s # <<>>
    [] OTHER -> TRUE

\* a || b
Or(a, b) == IF Truthy(a) THEN a ELSE b

\* Array.isArray(x)
IsArray(x) == x.t = "arr"

\* x.k of a value that is neither null nor undefined
Get(x, k) == IF x.t = "obj" /\ k \in DOMAIN x.o THEN x.o[k] ELSE Undef

\* x.k throws a TypeError
GetThrows(x) == x.t \in {"undefined", "null"}

\* k in x throws a TypeError unless x is an object or an array
InThrows(x) == x.t \notin {"obj", "arr"}

\* { ...x, k: val }
With(x, k, val) == Obj((k :> val) @@ (IF x.t = "obj" THEN x.o ELSE <<>>))

Digits == <<"0", "1", "2", "3", "4", "5", "6", "7", "8", "9">>

\* String(n) of a natural number
RECURSIVE NumToString(_)
NumToString(n) ==
  IF n < 10 THEN <<Digits[n + 1]>> ELSE NumToString(n \div 10) \o <<Digits[(n % 10) + 1]>>

\* s.split(sep)[0]
RECURSIVE SplitFirst(_, _)
SplitFirst(s, sep) ==
  IF s = <<>> \/ Head(s) = sep THEN <<>> ELSE <<Head(s)>> \o SplitFirst(Tail(s), sep)

\* p.join(sep) of a sequence of strings
RECURSIVE Join(_, _)
Join(p, sep) ==
  IF p = <<>> THEN <<>>
  ELSE IF Len(p) = 1 THEN p[1]
  ELSE p[1] \o <<sep>> \o Join(Tail(p), sep)

\* the marker of an exception thrown while a value was being built
\* `${x}` throws: an object parsed from JSON with a property toString, which is not
\* callable, cannot be converted to a primitive value
ToStringThrows(x) == x.t = "obj" /\ "toString" \in DOMAIN x.o

Thrown == [t |-> "throw"]

AnyThrown(s) == \E i \in 1..Len(s) : s[i] = Thrown

(* ----------------------------------------------------------------------- *)
(* The clock: new Date().toISOString() is date, "T", time                  *)
(* ----------------------------------------------------------------------- *)
DateParts == {"2026-11-05", "2024-01-15"}

TimeParts == {"09:30:00.000Z"}

toISOString(day) == <<day, "T", "09:30:00.000Z">>

(* ----------------------------------------------------------------------- *)
(* Repair Engine                                                           *)
(* ----------------------------------------------------------------------- *)
defaultData ==
  Obj(("entity" :> Obj(("id" :> Null) @@ ("name_brand" :> Str(<<"Unknown Company">>))
                       @@ ("details" :> Arr(<<>>)) @@ ("products" :> Arr(<<>>))))
      @@ ("_meta" :> Obj("cost" :> Obj(("totalTokens" :> Num(0)) @@ ("costUSD" :> Num(0))))))

getDetailProperty(obj, snakeCaseKey, camelCaseKey, defaultValue) ==
  IF Get(obj, snakeCaseKey) # Undef THEN Get(obj, snakeCaseKey)
  ELSE IF Get(obj, camelCaseKey) # Undef THEN Get(obj, camelCaseKey)
  ELSE defaultValue

\* typeof d.snake === T ? d.snake : typeof d.camel === T ? d.camel : undefined
typedValue(d, snake, camel, T) ==
  IF TypeOf(Get(d, snake)) = T THEN Get(d, snake)
  ELSE IF TypeOf(Get(d, camel)) = T THEN Get(d, camel)
  ELSE Undef

today(day) == Str(SplitFirst(toISOString(day), "T"))

\* entityDetail reading the snake_case keys alone
entityDetailSnakeOnly(d, day) ==
  IF GetThrows(d) THEN Thrown
  ELSE Obj(("type_research_detail" :>
              Or(Get(d, "type_research_detail"), S("market_share_estimate")))
        @@ ("data_confidence" :> Or(Get(d, "data_confidence"), S("medium")))
        @@ ("source_type" :> Or(Get(d, "source_type"), S("analyst_estimate")))
        @@ ("as_of_date" :> Or(Get(d, "as_of_date"), today(day)))
        @@ ("discrete_value" :> typedValue(d, "discrete_value", "discrete_value", "number"))
        @@ ("text_value" :> typedValue(d, "text_value", "text_value", "string")))

\* the mapper of entityData.details
entityDetail(d, day) ==
  IF GetThrows(d) THEN Thrown
  ELSE Obj(("type_research_detail" :>
              Or(Or(Get(d, "type_research_detail"), Get(d, "typeResearchDetail")),
                 S("market_share_estimate")))
        @@ ("data_confidence" :>
              Or(Or(Get(d, "data_confidence"), Get(d, "dataConfidence")), S("medium")))
        @@ ("source_type" :>
              Or(Or(Get(d, "source_type"), Get(d, "sourceType")), S("analyst_estimate")))
        @@ ("as_of_date" :> Or(Or(Get(d, "as_of_date"), Get(d, "asOfDate")), today(day)))
        @@ ("discrete_value" :> typedValue(d, "discrete_value", "discreteValue", "number"))
        @@ ("text_value" :> typedValue(d, "text_value", "textValue", "string")))

\* the mapper of productData.details and of compData.details
nestedDetail(d, day) ==
  IF InThrows(d) THEN Thrown
  ELSE Obj(("type_research_detail" :>
              getDetailProperty(d, "type_research_detail", "typeResearchDetail",
                                S("market_share_estimate")))
        @@ ("data_confidence" :>
              getDetailProperty(d, "data_confidence", "dataConfidence", S("medium")))
        @@ ("source_type" :>
              getDetailProperty(d, "source_type", "sourceType", S("analyst_estimate")))
        @@ ("as_of_date" :> getDetailProperty(d, "as_of_date", "asOfDate", today(day)))
        @@ ("discrete_value" :> typedValue(d, "discrete_value", "discreteValue", "number"))
        @@ ("text_value" :> typedValue(d, "text_value", "textValue", "string")))

\* Array.isArray(x.details) ? x.details.map(nestedDetail) : []
nestedDetails(x, day) ==
  IF IsArray(Get(x, "details"))
  THEN LET ds == Get(x, "details").a
           out == [i \in 1..Len(ds) |-> nestedDetail(ds[i], day)]
       IN IF AnyThrown(out) THEN Thrown ELSE Arr(out)
  ELSE Arr(<<>>)

\* nameBrand taking name_brand whatever its type
nameBrandUnchecked(x, fallback) == Get(x, "name_brand")

\* typeof x.name_brand === 'string' ? x.name_brand
\*   : typeof x.nameBrand === 'string' ? x.nameBrand : fallback
nameBrand(x, fallback) ==
  IF TypeOf(Get(x, "name_brand")) = "string" THEN Get(x, "name_brand")
  ELSE IF TypeOf(Get(x, "nameBrand")) = "string" THEN Get(x, "nameBrand")
  ELSE Str(<<fallback>>)

placeholder(name) ==
  Obj(("id" :> Null) @@ ("name_brand" :> Str(name)) @@ ("details" :> Arr(<<>>)))

\* modernCompetitor handing on the competitors of the competitor
modernCompetitorNesting(comp, day) ==
  IF ~Truthy(comp) \/ TypeOf(comp) # "object" THEN placeholder(<<"Unknown Competitor">>)
  ELSE LET ds == nestedDetails(comp, day)
       IN IF ds = Thrown THEN Thrown
          ELSE Obj(("id" :> Null) @@ ("name_brand" :> nameBrand(comp, "Unknown Competitor"))
                   @@ ("details" :> ds) @@ ("competitors" :> Get(comp, "competitors")))

\* CASE 1, the mapper of productData.competitors
modernCompetitor(comp, day) ==
  IF ~Truthy(comp) \/ TypeOf(comp) # "object" THEN placeholder(<<"Unknown Competitor">>)
  ELSE LET ds == nestedDetails(comp, day)
       IN IF ds = Thrown THEN Thrown
          ELSE Obj(("id" :> Null) @@ ("name_brand" :> nameBrand(comp, "Unknown Competitor"))
                   @@ ("details" :> ds))

\* modernProduct keeping the id of the product
modernProductKeepingId(product, day) ==
  IF ~Truthy(product) \/ TypeOf(product) # "object" THEN placeholder(<<"Unknown Product">>)
  ELSE LET ds == nestedDetails(product, day)
           cs == IF IsArray(Get(product, "competitors"))
                 THEN [i \in 1..Len(Get(product, "competitors").a) |->
                         modernCompetitor(Get(product, "competitors").a[i], day)]
                 ELSE <<>>
       IN IF ds = Thrown \/ AnyThrown(cs) THEN Thrown
          ELSE Obj(("id" :> Get(product, "id"))
                   @@ ("name_brand" :> nameBrand(product, "Unknown Product"))
                   @@ ("details" :> ds) @@ ("competitors" :> Arr(cs)))

\* CASE 1, the mapper of entityData.products
modernProduct(product, day) ==
  IF ~Truthy(product) \/ TypeOf(product) # "object" THEN placeholder(<<"Unknown Product">>)
  ELSE LET ds == nestedDetails(product, day)
           cs == IF IsArray(Get(product, "competitors"))
                 THEN [i \in 1..Len(Get(product, "competitors").a) |->
                         modernCompetitor(Get(product, "competitors").a[i], day)]
                 ELSE <<>>
       IN IF ds = Thrown \/ AnyThrown(cs) THEN Thrown
          ELSE Obj(("id" :> Null) @@ ("name_brand" :> nameBrand(product, "Unknown Product"))
                   @@ ("details" :> ds) @@ ("competitors" :> Arr(cs)))

\* CASE 1: the input has an entity object
repairModern(rawData, day) ==
  LET entityData == Get(rawData, "entity")
      ds == IF IsArray(Get(entityData, "details"))
            THEN [i \in 1..Len(Get(entityData, "details").a) |->
                    entityDetail(Get(entityData, "details").a[i], day)]
            ELSE <<>>
      ps == IF IsArray(Get(entityData, "products"))
            THEN [i \in 1..Len(Get(entityData, "products").a) |->
                    modernProduct(Get(entityData, "products").a[i], day)]
            ELSE <<>>
      meta == IF Truthy(Get(rawData, "_meta")) /\ TypeOf(Get(rawData, "_meta")) = "object"
              THEN Get(rawData, "_meta")
              ELSE Get(defaultData, "_meta")
  IN IF AnyThrown(ds) \/ AnyThrown(ps) THEN Thrown
     ELSE Obj(("entity" :> Obj(("id" :> Null)
                               @@ ("name_brand" :> nameBrand(entityData, "Unknown Company"))
                               @@ ("details" :> Arr(ds)) @@ ("products" :> Arr(ps))))
              @@ ("_meta" :> meta))

\* `${label} ${index + 1}`
numbered(label, i) == <<label, " ">> \o NumToString(i)

\* CASE 2, the mapper of productData.competitors (i is index + 1)
legacyCompetitor(comp, i) ==
  IF ~Truthy(comp) \/ TypeOf(comp) # "object" THEN placeholder(numbered("Competitor", i))
  ELSE LET compName ==
             Or(Or(Or(Or(Get(comp, "name"), Get(comp, "competitor_name")),
                      Get(comp, "name_brand")), Get(comp, "nameBrand")),
                Str(numbered("Competitor", i)))
       IN Obj(("id" :> Null)
              @@ ("name_brand" :> IF TypeOf(compName) = "string" THEN compName
                                  ELSE Str(numbered("Competitor", i)))
              @@ ("details" :> Arr(<<>>)))

\* legacyProduct naming every product by its position
legacyProductNumbered(product, i) ==
  IF ~Truthy(product) \/ TypeOf(product) # "object" THEN placeholder(numbered("Product", i))
  ELSE Obj(("id" :> Null) @@ ("name_brand" :> Str(numbered("Product", i)))
           @@ ("details" :> Arr(<<>>))
           @@ ("competitors" :>
                 Arr(IF IsArray(Get(product, "competitors"))
                     THEN [j \in 1..Len(Get(product, "competitors").a) |->
                             legacyCompetitor(Get(product, "competitors").a[j], j)]
                     ELSE <<>>)))

\* CASE 2, the mapper of rawData.products (i is index + 1)
legacyProduct(product, i) ==
  IF ~Truthy(product) \/ TypeOf(product) # "object" THEN placeholder(numbered("Product", i))
  ELSE LET productName ==
             Or(Or(Or(Or(Get(product, "name"), Get(product, "product_name")),
                      Get(product, "name_brand")), Get(product, "nameBrand")),
                Str(numbered("Product", i)))
           cs == IF IsArray(Get(product, "competitors"))
                 THEN [j \in 1..Len(Get(product, "competitors").a) |->
                         legacyCompetitor(Get(product, "competitors").a[j], j)]
                 ELSE <<>>
       IN Obj(("id" :> Null)
              @@ ("name_brand" :> IF TypeOf(productName) = "string" THEN productName
                                  ELSE Str(numbered("Product", i)))
              @@ ("details" :> Arr(<<>>)) @@ ("competitors" :> Arr(cs)))

\* legacyCompanyName without the test of the type
legacyCompanyNameUnchecked(rawData) ==
  LET company == Get(rawData, "company")
      nested == IF TypeOf(company) = "object" /\ Truthy(company)
                THEN Or(Or(Get(company, "name"), Get(company, "company_name")),
                        Get(company, "trade_name"))
                ELSE Null
  IN Or(Or(Or(Or(nested, Get(rawData, "company_name")), Get(rawData, "name")),
           Get(rawData, "trade_name")), Str(<<"Unknown Company">>))

\* CASE 2, the company name of the legacy flat shape
legacyCompanyName(rawData) ==
  LET company == Get(rawData, "company")
      nested == IF TypeOf(company) = "object" /\ Truthy(company)
                THEN Or(Or(Get(company, "name"), Get(company, "company_name")),
                        Get(company, "trade_name"))
                ELSE Null
      companyName == Or(Or(Or(Or(nested, Get(rawData, "company_name")), Get(rawData, "name")),
                           Get(rawData, "trade_name")), Str(<<"Unknown Company">>))
  IN IF TypeOf(companyName) = "string" THEN companyName ELSE Str(<<"Unknown Company">>)

\* CASE 2: the legacy flat shape
repairLegacy(rawData) ==
  Obj(("entity" :> Obj(("id" :> Null) @@ ("name_brand" :> legacyCompanyName(rawData))
                       @@ ("details" :> Arr(<<>>))
                       @@ ("products" :> Arr([i \in 1..Len(Get(rawData, "products").a) |->
                                                legacyProduct(Get(rawData, "products").a[i], i)]))))
      @@ ("_meta" :> Get(defaultData, "_meta")))

isModern(rawData) == Truthy(Get(rawData, "entity")) /\ TypeOf(Get(rawData, "entity")) = "object"

isLegacy(rawData) ==
  /\ Truthy(Get(rawData, "company")) \/ Truthy(Get(rawData, "company_name"))
       \/ Truthy(Get(rawData, "name"))
  /\ IsArray(Get(rawData, "products"))

\* repairAnalysisData looking for the legacy shape first
repairLegacyFirst(data, day) ==
  IF ~Truthy(data) \/ TypeOf(data) # "object" THEN defaultData
  ELSE IF isLegacy(data) THEN repairLegacy(data)
  ELSE IF isModern(data)
       THEN (IF repairModern(data, day) = Thrown THEN defaultData ELSE repairModern(data, day))
  ELSE defaultData

\* repairAnalysisData(data), evaluated on the day `day`; it has no outcome but a value
repairAnalysisData(data, day) ==
  IF ~Truthy(data) \/ TypeOf(data) # "object" THEN defaultData
  ELSE IF isModern(data)
       THEN (IF repairModern(data, day) = Thrown THEN defaultData ELSE repairModern(data, day))
  ELSE IF isLegacy(data) THEN repairLegacy(data)
  ELSE defaultData

(* ----------------------------------------------------------------------- *)
(* Schema Model and Structural Validator (Zod)                             *)
(* ----------------------------------------------------------------------- *)
dataConfidence == {<<"verified">>, <<"high">>, <<"medium">>, <<"low">>, <<"speculative">>}

researchDetailTypes ==
  {<<"market_share_min">>, <<"market_share_max">>, <<"market_share_exact">>,
   <<"market_share_estimate">>, <<"employee_count_exact">>, <<"employee_count_estimate">>,
   <<"employee_count_min">>, <<"employee_count_max">>, <<"churn_rate_estimate">>,
   <<"customer_count_estimate">>, <<"active_users_estimate">>, <<"arpu_estimate">>,
   <<"cac_estimate">>, <<"ltv_estimate">>, <<"runway_months_estimate">>,
   <<"market_size_usd">>, <<"market_growth_rate">>}

sourceTypes ==
  {<<"industry_report">>, <<"company_filing">>, <<"news_article">>, <<"analyst_estimate">>,
   <<"company_website">>, <<"press_release">>, <<"unknown">>}

\* the texts that z.string().uuid() accepts
UuidTexts == {<<"123e4567-e89b-12d3-a456-426614174000">>}

\* z.string().datetime(): a date, "T" and a time that ends with Z
isDatetime(s) == Len(s) = 3 /\ s[1] \in DateParts /\ s[2] = "T" /\ s[3] \in TimeParts

\* Zod's getParsedType
parsedType(x) ==
  CASE x.t = "num" -> "number"
    [] x.t = "str" -> "string"
    [] x.t = "arr" -> "array"
    [] x.t = "obj" -> "object"
    [] OTHER -> x.t

issue(path, message) == [path |-> path, message |-> message]

\* a path is a sequence of strings: keys, and indexes as path.join prints them
At(path, key) == Append(path, <<key>>)

AtIndex(path, index) == Append(path, NumToString(index))

\* the invalid_type issue
invalidType(x, expected, path) ==
  issue(path, IF x = Undef THEN <<"Required">>
              ELSE <<"Expected ", expected, ", received ", parsedType(x)>>)

zString(x, path) == IF x.t = "str" THEN <<>> ELSE <<invalidType(x, "string", path)>>

zNumber(x, path) == IF x.t = "num" THEN <<>> ELSE <<invalidType(x, "number", path)>>

zPositiveInt(x, path) ==
  IF x.t # "num" THEN <<invalidType(x, "number", path)>>
  ELSE IF x.n <= 0 THEN <<issue(path, <<"Number must be greater than 0">>)>>
  ELSE <<>>

\* z.enum accepting every string
zEnumAnyString(x, values, path) ==
  IF x.t # "str" THEN <<invalidType(x, "enum", path)>> ELSE <<>>

zEnum(x, values, path) ==
  IF x.t # "str" THEN <<invalidType(x, "enum", path)>>
  ELSE IF x.s \notin values THEN <<issue(path, <<"Invalid enum value">>)>>
  ELSE <<>>

zDatetime(x, path) ==
  IF x.t # "str" THEN <<invalidType(x, "string", path)>>
  ELSE IF ~isDatetime(x.s) THEN <<issue(path, <<"Invalid datetime">>)>>
  ELSE <<>>

zUuid(x, path) ==
  IF x.t # "str" THEN <<invalidType(x, "string", path)>>
  ELSE IF x.s \notin UuidTexts THEN <<issue(path, <<"Invalid uuid">>)>>
  ELSE <<>>

RECURSIVE Flatten(_)
Flatten(ss) == IF ss = <<>> THEN <<>> ELSE Head(ss) \o Flatten(Tail(ss))

\* entityDetailSchema; the optional fields that no payload of the model carries
\* (entity_id, created_at, updated_at, source, source_url, source_date) always pass
entityDetailSchema(x, path) ==
  IF x.t # "obj" THEN <<invalidType(x, "object", path)>>
  ELSE (IF Get(x, "id") = Undef THEN <<>> ELSE zPositiveInt(Get(x, "id"), At(path, "id")))
    \o zEnum(Get(x, "type_research_detail"), researchDetailTypes,
             At(path, "type_research_detail"))
    \o zEnum(Get(x, "data_confidence"), dataConfidence, At(path, "data_confidence"))
    \o zEnum(Get(x, "source_type"), sourceTypes, At(path, "source_type"))
    \o (IF Get(x, "as_of_date") = Undef THEN <<>>
        ELSE zDatetime(Get(x, "as_of_date"), At(path, "as_of_date")))
    \o (IF Get(x, "discrete_value") = Undef THEN <<>>
        ELSE zNumber(Get(x, "discrete_value"), At(path, "discrete_value")))
    \o (IF Get(x, "text_value") = Undef THEN <<>>
        ELSE zString(Get(x, "text_value"), At(path, "text_value")))
    \o (IF Get(x, "notes") = Undef THEN <<>>
        ELSE zString(Get(x, "notes"), At(path, "notes")))

\* z.array(entityDetailSchema).optional()
detailsSchema(x, path) ==
  IF x = Undef THEN <<>>
  ELSE IF x.t # "arr" THEN <<invalidType(x, "array", path)>>
  ELSE Flatten([i \in 1..Len(x.a) |->
                  entityDetailSchema(x.a[i], AtIndex(path, i - 1))])

\* baseEntitySchema; the optional fields that no payload of the model carries
\* (logos, status flags, currency, slug, timestamps) always pass
baseEntitySchema(x, path) ==
  (IF Get(x, "id") = Null THEN <<>> ELSE zUuid(Get(x, "id"), At(path, "id")))
  \o zString(Get(x, "name_brand"), At(path, "name_brand"))
  \o (IF Get(x, "name_legal") = Undef THEN <<>>
      ELSE zString(Get(x, "name_legal"), At(path, "name_legal")))
  \o (IF Get(x, "date_year_established") = Undef THEN <<>>
      ELSE zNumber(Get(x, "date_year_established"), At(path, "date_year_established")))

\* productEntitySchema extended with competitors: z.array(recursive).optional()
RECURSIVE recursiveProductEntitySchema(_, _)
recursiveProductEntitySchema(x, path) ==
  IF x.t # "obj" THEN <<invalidType(x, "object", path)>>
  ELSE baseEntitySchema(x, path)
    \o detailsSchema(Get(x, "details"), At(path, "details"))
    \o (LET cs == Get(x, "competitors")
        IN IF cs = Undef THEN <<>>
           ELSE IF cs.t # "arr" THEN <<invalidType(cs, "array", At(path, "competitors"))>>
           ELSE Flatten([i \in 1..Len(cs.a) |->
                  recursiveProductEntitySchema(
                    cs.a[i], AtIndex(At(path, "competitors"), i - 1))]))

\* the _meta block of analysisDataSchema
metaSchema(x, path) ==
  IF x = Undef THEN <<>>
  ELSE IF x.t # "obj" THEN <<invalidType(x, "object", path)>>
  ELSE (LET cost == Get(x, "cost")
        IN IF cost = Undef THEN <<>>
           ELSE IF cost.t # "obj" THEN <<invalidType(cost, "object", At(path, "cost"))>>
           ELSE zNumber(Get(cost, "totalTokens"), At(At(path, "cost"), "totalTokens"))
                \o zNumber(Get(cost, "costUSD"), At(At(path, "cost"), "costUSD")))
    \o (IF Get(x, "validation") = Undef THEN <<>>
        ELSE zString(Get(x, "validation"), At(path, "validation")))

\* analysisDataSchema.parse(data): the issues of the ZodError, none when it succeeds
analysisDataSchema(data) ==
  IF data.t # "obj" THEN <<invalidType(data, "object", <<>>)>>
  ELSE (LET entity == Get(data, "entity")
        IN IF entity.t # "obj" THEN <<invalidType(entity, "object", <<<<"entity">>>>)>>
           ELSE (IF Get(entity, "id") = Null THEN <<>>
                 ELSE zString(Get(entity, "id"), <<<<"entity">>, <<"id">>>>))
             \o zString(Get(entity, "name_brand"), <<<<"entity">>, <<"name_brand">>>>)
             \o detailsSchema(Get(entity, "details"), <<<<"entity">>, <<"details">>>>)
             \o (LET ps == Get(entity, "products")
                 IN IF ps = Undef THEN <<>>
                    ELSE IF ps.t # "arr"
                         THEN <<invalidType(ps, "array", <<<<"entity">>, <<"products">>>>)>>
                    ELSE Flatten([i \in 1..Len(ps.a) |->
                           recursiveProductEntitySchema(
                             ps.a[i],
                             AtIndex(<<<<"entity">>, <<"products">>>>, i - 1))])))
    \o metaSchema(Get(data, "_meta"), <<<<"_meta">>>>)

\* formatIssue without the path
formatIssueMessageOnly(e) == Str(e.message)

\* `${e.path.join('.')}: ${e.message}`
formatIssue(e) == Str(Join(e.path, ".") \o <<": ">> \o e.message)

\* validate.analysisData answering a rejection without its errors
validateWithoutErrors(data) ==
  [isValid |-> analysisDataSchema(data) = <<>>, errors |-> Undef]

\* validate.analysisData(data)
validate_analysisData(data) ==
  LET errors == analysisDataSchema(data)
  IN IF errors = <<>> THEN [isValid |-> TRUE, errors |-> Undef]
     ELSE [isValid |-> FALSE,
           errors |-> Arr([i \in 1..Len(errors) |-> formatIssue(errors[i])])]

(* ----------------------------------------------------------------------- *)
(* The projection for the UI: transformToEnhancedCompanyData               *)
(* ----------------------------------------------------------------------- *)
\* the texts of the model that contain `part`
textsIncluding(part) ==
  CASE part = "description" -> {"company_description", "product_description"}
    [] part = "industry" -> {"industry_name"}
    [] part = "sector" -> {"sector_name"}
    [] part = "market_share" ->
         {"market_share_min", "market_share_max", "market_share_exact", "market_share_estimate"}
    [] part = "growth" -> {"market_growth_rate"}

\* x?.includes(part), where it returns: undefined, which is falsy, on null and undefined
includes(x, part) == x.t = "str" /\ \E i \in 1..Len(x.s) : x.s[i] \in textsIncluding(part)

\* x?.includes(part) throws: x is neither null nor undefined and has no method includes
includesThrows(x) == x.t \in {"num", "obj"}

researchType(d) == Get(d, "type_research_detail")

\* x.details as a sequence, for the loops over it
detailsOf(x) == IF IsArray(Get(x, "details")) THEN Get(x, "details").a ELSE <<>>

\* the last element of ds that Match accepts, none when there is none
lastThat(ds, Match(_)) ==
  LET idx == {i \in 1..Len(ds) : Match(ds[i])}
  IN IF idx = {} THEN [t |-> "none"] ELSE ds[CHOOSE m \in idx : \A i \in idx : i <= m]

\* x.name_brand || fallback, as text
nameOr(x, fallback) == IF Truthy(Get(x, "name_brand")) THEN Get(x, "name_brand").s ELSE fallback

\* a / b
quotient(a, b) ==
  IF a % b = 0 THEN Num(a \div b) ELSE [t |-> "num", n |-> a \div b, over |-> <<a % b, b>>]

\* the branches of the loop over entity.details
entityDescribes(d) == Truthy(Get(d, "text_value")) /\ includes(researchType(d), "description")

entityIndustry(d) ==
  /\ Truthy(Get(d, "text_value")) /\ ~includes(researchType(d), "description")
  /\ includes(researchType(d), "industry")

entitySector(d) ==
  /\ Truthy(Get(d, "text_value")) /\ ~includes(researchType(d), "description")
  /\ ~includes(researchType(d), "industry") /\ includes(researchType(d), "sector")

\* the branches of the loop over product.details
hasMarketShare(d) ==
  includes(researchType(d), "market_share") /\ Get(d, "discrete_value") # Undef

hasGrowth(d) ==
  /\ ~hasMarketShare(d)
  /\ includes(researchType(d), "growth") /\ Get(d, "discrete_value") # Undef

productDescribes(d) ==
  /\ ~hasMarketShare(d) /\ ~hasGrowth(d)
  /\ Truthy(Get(d, "text_value")) /\ includes(researchType(d), "description")

textOr(d, fallback) == IF d.t = "none" THEN fallback ELSE Get(d, "text_value").s

\* the mapper of extractProducts (index is index + 1, count is products.length)
productLine(product, index, count, entityName) ==
  IF \E i \in 1..Len(detailsOf(product)) : includesThrows(researchType(detailsOf(product)[i]))
  THEN Thrown
  ELSE LET share == lastThat(detailsOf(product), hasMarketShare)
           grown == lastThat(detailsOf(product), hasGrowth)
           revenue == IF share.t = "none" THEN Num(0) ELSE Get(share, "discrete_value")
       IN [name |-> nameOr(product, numbered("Product", index)),
           revenuePercentage |-> IF revenue.n > 0 THEN revenue ELSE quotient(100, count),
           growth |-> IF grown.t = "none" THEN <<"0%">>
                      ELSE NumToString(Get(grown, "discrete_value").n) \o <<"%">>,
           description |->
             textOr(lastThat(detailsOf(product), productDescribes),
                    nameOr(product, <<"Product">>) \o <<" by ">> \o entityName)]

\* extractProducts throws: the mapper throws on a product
extractProductsThrows(products) ==
  \E p \in 1..Len(products) : productLine(products[p], p, Len(products), <<>>) = Thrown

\* extractProducts, where it returns
extractProducts(products, entityName) ==
  IF products = <<>>
  THEN <<[name |-> entityName \o <<" Main Product">>, revenuePercentage |-> Num(100),
          growth |-> <<"0%">>, description |-> <<"Main offering by ">> \o entityName]>>
  ELSE [i \in 1..Len(products) |-> productLine(products[i], i, Len(products), entityName)]

\* the competitors of the products, in order, each with its product and its position
competitorsInOrder(products) ==
  LET flat == Flatten([p \in 1..Len(products) |->
                         IF IsArray(Get(products[p], "competitors"))
                         THEN [c \in 1..Len(Get(products[p], "competitors").a) |->
                                 [product |-> products[p],
                                  competitor |-> Get(products[p], "competitors").a[c]]]
                         ELSE <<>>])
  IN [i \in 1..Len(flat) |->
        [product |-> flat[i].product, competitor |-> flat[i].competitor,
         seen |-> \E j \in 1..(i - 1) :
                    nameOr(flat[j].competitor, <<"Unknown Competitor">>)
                      = nameOr(flat[i].competitor, <<"Unknown Competitor">>)]]

unseen(entry) == ~entry.seen

\* competitor.details.find(...) throws: an element throws and none before it is found
findThrows(ds) ==
  \E i \in 1..Len(ds) :
    /\ includesThrows(researchType(ds[i]))
    /\ \A j \in 1..(i - 1) : ~hasMarketShare(ds[j])

firstMarketShare(ds) ==
  LET idx == {i \in 1..Len(ds) : hasMarketShare(ds[i])}
  IN IF idx = {} THEN Num(5)
     ELSE Get(ds[CHOOSE m \in idx : \A i \in idx : m <= i], "discrete_value")

\* extractCompetitors throws: the search throws on a competitor that is not skipped
extractCompetitorsThrows(products) ==
  LET kept == SelectSeq(competitorsInOrder(products), unseen)
  IN \E i \in 1..Len(kept) : findThrows(detailsOf(kept[i].competitor))

\* extractCompetitors, where it returns
extractCompetitors(products) ==
  LET kept == SelectSeq(competitorsInOrder(products), unseen)
  IN [i \in 1..Len(kept) |->
        [name |-> nameOr(kept[i].competitor, <<"Unknown Competitor">>),
         marketShare |-> firstMarketShare(detailsOf(kept[i].competitor)),
         primaryCompetition |->
           <<"Competitor for ">> \o nameOr(kept[i].product, <<"this product">>)]]

\* the parts of createAnalysis that depend on its arguments
createAnalysis(entityName, industry, competitors) ==
  [strength |-> entityName \o <<" offers specialized services">>,
   opportunity |-> <<"Growth potential in the ">> \o industry \o <<" sector">>,
   threat |-> <<"Competition from established players">>
                \o (IF competitors # <<>> THEN <<" like ">> \o competitors[1].name ELSE <<>>),
   competitiveRivalry |-> IF Len(competitors) > 3 THEN 4 ELSE 3,
   threatOfNewEntrants |-> IF Len(competitors) > 3 THEN 4 ELSE 3,
   marketExpansion |->
     entityName \o <<" expands its offerings to capture larger market share">>,
   increasedCompetition |->
     IF competitors # <<>> /\ competitors[1].name # <<>>
     THEN competitors[1].name \o <<" and other competitors introduce similar offerings">>
     ELSE <<"Major players introduce competing products">>]

\* the value returned for the name, the details and the products of processedData
enhanced(entityName, entityDetails, products, day) ==
  IF \E i \in 1..Len(entityDetails) :
       /\ Truthy(Get(entityDetails[i], "text_value"))
       /\ includesThrows(researchType(entityDetails[i]))
  THEN Thrown
  ELSE IF extractProductsThrows(products) \/ extractCompetitorsThrows(products) THEN Thrown
  ELSE [id |-> <<"openai-", day>>,
        slug |-> [lowerCaseDashed |-> entityName],
        name |-> entityName,
        description |-> textOr(lastThat(entityDetails, entityDescribes),
                               entityName \o <<" provides services">>),
        industry |-> textOr(lastThat(entityDetails, entityIndustry), <<"Technology">>),
        sector |-> textOr(lastThat(entityDetails, entitySector), <<"Software">>),
        productLines |-> extractProducts(products, entityName),
        competitors |-> extractCompetitors(products),
        analysis |->
          createAnalysis(entityName,
                         textOr(lastThat(entityDetails, entityIndustry), <<"Technology">>),
                         extractCompetitors(products))]

\* the projection of processedData, the value that is valid or repaired
enhance(processedData, companyName, day) ==
  enhanced(nameOr(Get(processedData, "entity"), companyName),
           detailsOf(Get(processedData, "entity")),
           IF IsArray(Get(Get(processedData, "entity"), "products"))
           THEN Get(Get(processedData, "entity"), "products").a ELSE <<>>,
           day)

\* transformToEnhancedCompanyData(data, companyName), evaluated on the day `day`: the
\* projection, or Thrown. The validator and the repair return, so the catch around
\* them is never entered. Date.now() is read as the day, and the slug is kept as the
\* name it is computed from.
transformToEnhancedCompanyData(data, companyName, day) ==
  enhance(IF validate_analysisData(data).isValid THEN data ELSE repairAnalysisData(data, day),
          companyName, day)

(* ----------------------------------------------------------------------- *)
(* The payloads an LLM can return, bounded                                 *)
(* ----------------------------------------------------------------------- *)
MaxDetails == 2

MaxProducts == 2

MaxCompetitors == 2

SeqsUpTo(X, n) == UNION {[1..k -> X] : k \in 0..n}

ADatetime == Str(<<"2024-01-15", "T", "09:30:00.000Z">>)

ADate == Str(<<"2024-01-15">>)

AUuid == Str(<<"123e4567-e89b-12d3-a456-426614174000">>)

validDetail ==
  Obj(("type_research_detail" :> S("market_share_exact")) @@ ("data_confidence" :> S("high"))
      @@ ("source_type" :> S("company_filing")) @@ ("as_of_date" :> ADatetime)
      @@ ("discrete_value" :> Num(42)))

\* a Detail that carries only camelCase keys
camelDetail(trd, dc, st, date, dv) ==
  Obj(("typeResearchDetail" :> trd) @@ ("dataConfidence" :> dc) @@ ("sourceType" :> st)
      @@ ("asOfDate" :> date) @@ ("discreteValue" :> dv))

DetailPool ==
  { Null, Num(5), S("n/a"), EmptyObj, validDetail,
    \* a valid Detail with further schema fields
    Obj(("id" :> Num(7)) @@ ("type_research_detail" :> S("market_size_usd"))
        @@ ("data_confidence" :> S("verified")) @@ ("source_type" :> S("unknown"))
        @@ ("text_value" :> S("large")) @@ ("notes" :> S("see filing"))),
    camelDetail(S("market_growth_rate"), S("low"), S("news_article"), ADatetime, Num(0)),
    camelDetail(Str(<<>>), S("low"), S("news_article"), ADate, Num(9)),
    \* values outside the enumerations
    Obj(("type_research_detail" :> S("revenue_guess")) @@ ("data_confidence" :> S("certain"))
        @@ ("source_type" :> S("rumour"))),
    \* snake_case values null, empty, zero or wrongly typed beside a camelCase alias
    Obj(("type_research_detail" :> Null) @@ ("typeResearchDetail" :> S("market_size_usd"))
        @@ ("data_confidence" :> Str(<<>>)) @@ ("dataConfidence" :> S("low"))
        @@ ("source_type" :> Num(0)) @@ ("sourceType" :> S("press_release"))
        @@ ("discrete_value" :> S("12")) @@ ("discreteValue" :> Num(12))),
    Obj(("type_research_detail" :> Num(7)) @@ ("data_confidence" :> S("high"))
        @@ ("source_type" :> S("unknown")) @@ ("text_value" :> S("seven"))),
    \* a date without a time
    Obj(("type_research_detail" :> S("market_share_estimate")) @@ ("data_confidence" :> S("high"))
        @@ ("source_type" :> S("analyst_estimate")) @@ ("as_of_date" :> ADate)) }

DetailLists == {Arr(ds) : ds \in SeqsUpTo(DetailPool, MaxDetails)}

validCompetitor == Obj(("id" :> Null) @@ ("name_brand" :> S("Bolt")))

CompetitorPool ==
  { Null, EmptyObj, validCompetitor, Obj("nameBrand" :> S("Nut")),
    \* a competitor that nests a competitor
    Obj(("id" :> Null) @@ ("name_brand" :> S("Rivet"))
        @@ ("competitors" :> Arr(<<Obj(("id" :> Null) @@ ("name_brand" :> S("Deep")))>>))) }

CompetitorLists == {Arr(cs) : cs \in SeqsUpTo(CompetitorPool, MaxCompetitors)}

validProduct == Obj(("id" :> Null) @@ ("name_brand" :> S("Widget")))

ProductPool ==
  { Null, S("gizmo"), EmptyObj, validProduct,
    Obj(("id" :> Null) @@ ("name_brand" :> S("Widget")) @@ ("name_legal" :> S("Widget LLC"))
        @@ ("date_year_established" :> Num(1999))),
    Obj("nameBrand" :> S("Gadget")),
    Obj(("id" :> Null) @@ ("name_brand" :> Str(<<>>))),
    Obj(("id" :> AUuid) @@ ("name_brand" :> S("Widget")) @@ ("details" :> Arr(<<validDetail>>))
        @@ ("competitors" :> Arr(<<validCompetitor>>))),
    Obj(("id" :> Num(3)) @@ ("name_brand" :> Num(4)) @@ ("products" :> Arr(<<validProduct>>))) }

ProductLists == {Arr(ps) : ps \in SeqsUpTo(ProductPool, MaxProducts)}

MetaPool ==
  { Undef, Null, S("meta"),
    Obj("cost" :> Obj(("totalTokens" :> Num(1200)) @@ ("costUSD" :> Num(3)))),
    Obj(("cost" :> Obj(("totalTokens" :> Num(1200)) @@ ("costUSD" :> Num(3))))
        @@ ("validation" :> S("passed"))),
    Obj("cost" :> S("free")) }

modern(id, name_brand, nameBrand_, details, products, meta) ==
  Obj(("entity" :> Obj(("id" :> id) @@ ("name_brand" :> name_brand) @@ ("nameBrand" :> nameBrand_)
                       @@ ("details" :> details) @@ ("products" :> products)))
      @@ ("_meta" :> meta))

\* the modern shape: root fields and _meta vary
ModernRoots ==
  { modern(id, nb, cnb, Undef, ps, meta) :
      id \in {Undef, Null, S("acme-1")}, nb \in {Undef, S("Acme"), Str(<<>>), Num(42)},
      cnb \in {Undef, S("AcmeCamel")}, ps \in {Undef, Arr(<<>>), S("none")}, meta \in MetaPool }
  \cup { Obj(("entity" :> e) @@ ("company_name" :> S("Legacy Co")) @@ ("products" :> Arr(<<>>))) :
           e \in {Null, S("Acme"), Arr(<<>>), Num(1), EmptyObj,
                  Obj(("id" :> Null) @@ ("name_brand" :> S("Acme"))
                      @@ ("name_legal" :> S("Acme Inc")))} }

\* the modern shape: a list of details on the root, on a product or on a competitor
ModernDetails ==
  { modern(Null, S("Acme"), Undef, ds, Undef, Undef) : ds \in DetailLists }
  \cup { modern(Null, S("Acme"), Undef, Arr(<<validDetail>>),
                Arr(<<Obj(("id" :> Null) @@ ("name_brand" :> S("Widget")) @@ ("details" :> ds))>>),
                Undef) : ds \in DetailLists }
  \cup { modern(Null, S("Acme"), Undef, Undef,
                Arr(<<Obj(("id" :> Null) @@ ("name_brand" :> S("Widget"))
                          @@ ("competitors" :>
                                Arr(<<Obj(("id" :> Null) @@ ("name_brand" :> S("Bolt"))
                                          @@ ("details" :> ds))>>)))>>),
                Undef) : ds \in DetailLists }

\* the modern shape: details that the projection reads
describing(trd, text) ==
  Obj(("type_research_detail" :> S(trd)) @@ ("data_confidence" :> S("high"))
      @@ ("source_type" :> S("company_website")) @@ ("as_of_date" :> ADatetime)
      @@ ("text_value" :> S(text)))

measuring(trd, n) ==
  Obj(("type_research_detail" :> trd) @@ ("data_confidence" :> S("high"))
      @@ ("source_type" :> S("analyst_estimate")) @@ ("as_of_date" :> ADatetime)
      @@ ("discrete_value" :> Num(n)))

ModernDescribed ==
  { modern(Null, S("Acme"), Undef, ds,
           Arr(<<Obj(("id" :> Null) @@ ("name_brand" :> S("Widget")) @@ ("details" :> pds)
                     @@ ("competitors" :> Arr(<<validCompetitor>>))),
                 Obj(("id" :> Null) @@ ("name_brand" :> S("Gadget"))
                     @@ ("competitors" :>
                           Arr(<<Obj(("id" :> Null) @@ ("name_brand" :> S("Bolt"))
                                     @@ ("details" :> cds)),
                                 Obj(("id" :> Null) @@ ("name_brand" :> S("Nut"))
                                     @@ ("details" :> cds))>>)))>>),
           Undef) :
      ds \in {Arr(<<>>),
              Arr(<<describing("company_description", "Makes widgets"),
                    describing("industry_name", "Hardware"),
                    describing("sector_name", "Tools")>>)},
      pds \in {Arr(<<>>),
               Arr(<<measuring(S("market_share_estimate"), 30),
                     measuring(S("market_growth_rate"), 12)>>),
               Arr(<<describing("product_description", "A widget")>>)},
      cds \in {Arr(<<>>),
               Arr(<<measuring(S("market_share_exact"), 20), measuring(Num(7), 1)>>),
               Arr(<<measuring(Num(7), 1), measuring(S("market_share_exact"), 20)>>)} }

\* the modern shape: one Detail on the root, on a product and on its competitor
ModernSameDetail ==
  { modern(Null, S("Acme"), Undef, Arr(<<d>>),
           Arr(<<Obj(("id" :> Null) @@ ("name_brand" :> S("Widget")) @@ ("details" :> Arr(<<d>>))
                     @@ ("competitors" :>
                           Arr(<<Obj(("id" :> Null) @@ ("name_brand" :> S("Bolt"))
                                     @@ ("details" :> Arr(<<d>>)))>>)))>>),
           Undef) : d \in DetailPool }

\* the modern shape: a list of products, and a list of competitors on a product
ModernProducts ==
  { modern(Null, S("Acme"), Undef, Undef, ps, Undef) : ps \in ProductLists }
  \cup { modern(Null, S("Acme"), Undef, Undef,
                Arr(<<Obj(("id" :> Null) @@ ("name_brand" :> S("Widget"))
                          @@ ("competitors" :> cs))>>), Undef) : cs \in CompetitorLists }

LegacyCompetitorPool ==
  { Null, Obj("name" :> S("Bolt")), Obj("competitor_name" :> S("Nut")),
    Obj(("name" :> Num(9)) @@ ("name_brand" :> S("Rivet"))
        @@ ("details" :> Arr(<<validDetail>>))) }

LegacyProductPool ==
  { Null, Num(3), Obj("name" :> S("Widget")), Obj("name" :> Str(<<>>)),
    Obj("product_name" :> S("Gadget")),
    Obj(("name" :> Num(5)) @@ ("nameBrand" :> S("Gizmo")) @@ ("details" :> Arr(<<validDetail>>))),
    Obj(("name" :> S("Widget")) @@ ("competitors" :> Arr(<<Obj("name" :> S("Bolt")), Null>>))) }

\* the legacy flat shape: the candidates of the company name vary
LegacyNames ==
  { Obj(("company" :> c) @@ ("company_name" :> cn) @@ ("name" :> n) @@ ("trade_name" :> tn)
        @@ ("entity" :> e) @@ ("products" :> ps)) :
      c \in {Undef, S("Acme Corp"), EmptyObj, Obj("name" :> S("Acme")),
             Obj(("name" :> Num(42)) @@ ("company_name" :> S("Acme Co"))),
             Obj("trade_name" :> S("Acme Trading"))},
      cn \in {Undef, S("Acme"), Str(<<>>), Num(42)}, n \in {Undef, S("Acme N")},
      tn \in {Undef, S("Acme T")}, e \in {Undef, S("entity")},
      ps \in {Undef, Arr(<<>>), Arr(<<Obj("name" :> S("Widget"))>>)} }

\* the legacy flat shape: the products vary
LegacyProducts ==
  { Obj(("company_name" :> S("Acme")) @@ ("products" :> Arr(ps))) :
      ps \in SeqsUpTo(LegacyProductPool, MaxProducts) }
  \cup { Obj(("company_name" :> S("Acme"))
             @@ ("products" :> Arr(<<Obj(("name" :> S("Widget"))
                                         @@ ("competitors" :> Arr(cs)))>>))) :
           cs \in SeqsUpTo(LegacyCompetitorPool, MaxCompetitors) }

Scalars ==
  { Null, Undef, Num(0), Num(42), Str(<<>>), S("str"), Arr(<<>>), Arr(<<validProduct>>),
    EmptyObj, Obj("main_products" :> Arr(<<S("Widget")>>)) }

Inputs ==
  Scalars \cup ModernRoots \cup ModernDetails \cup ModernSameDetail \cup ModernDescribed
    \cup ModernProducts
    \cup LegacyNames \cup LegacyProducts

(* ----------------------------------------------------------------------- *)
(* LLM transport and generation strategies                                 *)
(* ----------------------------------------------------------------------- *)
costOf(cost) ==
  Obj(("totalTokens" :> Num(cost.totalTokens)) @@ ("costUSD" :> Num(cost.costUSD)))

\* extractJSONFromLLMResponse(response).  Each field of the message holds what
\* safeParseJson makes of its text: null when the field is absent or is no JSON.
extractJSONFromLLMResponse(message) ==
  LET parsedData == Or(Or(message.tool_calls, message.function_call), message.content)
  IN IF ~Truthy(parsedData) THEN Thrown ELSE parsedData

\* callOpenAIWithSchema: { data, cost }, or the error of the call or of the extraction
callOpenAIWithSchema(response) ==
  IF response.kind = "error" THEN Thrown
  ELSE IF extractJSONFromLLMResponse(response.message) = Thrown THEN Thrown
  ELSE [data |-> extractJSONFromLLMResponse(response.message), cost |-> response.cost]

\* processSingleStepAnalysis answering a failed call with the default structure
processSingleStepSwallowing(response) ==
  LET called == callOpenAIWithSchema(response)
  IN IF called = Thrown THEN defaultData
     ELSE LET parsedData == called.data
              meta == Get(parsedData, "_meta")
          IN IF parsedData.t # "obj" THEN Thrown
             ELSE IF Truthy(meta) /\ meta.t # "obj" THEN Thrown
             ELSE With(parsedData, "_meta",
                       With(IF Truthy(meta) THEN meta ELSE EmptyObj, "cost", costOf(called.cost)))

\* processSingleStepAnalysis: the parsed payload with _meta.cost set on it
processSingleStepAnalysis(response) ==
  LET called == callOpenAIWithSchema(response)
  IN IF called = Thrown THEN Thrown
     ELSE LET parsedData == called.data
              meta == Get(parsedData, "_meta")
          IN \* a property cannot be created on a number or on a string
             IF parsedData.t # "obj" THEN Thrown
             ELSE IF Truthy(meta) /\ meta.t # "obj" THEN Thrown
             ELSE With(parsedData, "_meta",
                       With(IF Truthy(meta) THEN meta ELSE EmptyObj, "cost", costOf(called.cost)))

\* getBasicCompanyInfo answering a failed call with the name of the default structure
getBasicCompanyInfoUnknown(companyName, response) ==
  LET called == callOpenAIWithSchema(response)
  IN IF called = Thrown
     THEN [company_name |-> Str(<<"Unknown Company">>), main_products |-> <<>>,
           main_competitors |-> <<>>, cost |-> [totalTokens |-> 0, costUSD |-> 0]]
     ELSE [company_name |-> Or(Get(called.data, "company_name"), Str(companyName)),
           main_products |-> IF IsArray(Get(called.data, "main_products"))
                             THEN Get(called.data, "main_products").a ELSE <<>>,
           main_competitors |-> IF IsArray(Get(called.data, "main_competitors"))
                                THEN Get(called.data, "main_competitors").a ELSE <<>>,
           cost |-> called.cost]

\* getBasicCompanyInfo: an error of the call is caught and answered with defaults
getBasicCompanyInfo(companyName, response) ==
  LET called == callOpenAIWithSchema(response)
  IN IF called = Thrown
     THEN [company_name |-> Str(companyName), main_products |-> <<>>, main_competitors |-> <<>>,
           cost |-> [totalTokens |-> 0, costUSD |-> 0]]
     ELSE [company_name |-> Or(Get(called.data, "company_name"), Str(companyName)),
           main_products |-> IF IsArray(Get(called.data, "main_products"))
                             THEN Get(called.data, "main_products").a ELSE <<>>,
           main_competitors |-> IF IsArray(Get(called.data, "main_competitors"))
                                THEN Get(called.data, "main_competitors").a ELSE <<>>,
           cost |-> called.cost]

\* processMultiStepAnalysis: one product skeleton per main product.  A product name
\* that `Adding product: ${productName}` cannot print throws inside the try, and
\* `Error adding product ${productName}` throws again inside the catch.
processMultiStepAnalysis(companyName, response, day) ==
  LET basicInfo == getBasicCompanyInfo(companyName, response)
      competitors == [j \in 1..Len(basicInfo.main_competitors) |->
                        Obj(("id" :> Null) @@ ("name_brand" :> basicInfo.main_competitors[j])
                            @@ ("details" :> Arr(<<>>)))]
      product(productName) ==
        Obj(("id" :> Null) @@ ("name_brand" :> productName)
            @@ ("details" :>
                  Arr(<<Obj(("type_research_detail" :> S("market_share_estimate"))
                            @@ ("data_confidence" :> S("high"))
                            @@ ("source_type" :> S("analyst_estimate"))
                            @@ ("as_of_date" :> today(day))
                            @@ ("text_value" :> Str(<<"Product offered by ">> \o companyName)))>>))
            @@ ("competitors" :> Arr(competitors)))
  IN IF \E i \in 1..Len(basicInfo.main_products) : ToStringThrows(basicInfo.main_products[i])
     THEN Thrown
     ELSE
     Obj(("entity" :> Obj(("id" :> Null) @@ ("name_brand" :> basicInfo.company_name)
                          @@ ("products" :> Arr([i \in 1..Len(basicInfo.main_products) |->
                                                   product(basicInfo.main_products[i])]))
                          @@ ("details" :> Arr(<<>>))))
         @@ ("_meta" :> Obj("cost" :> costOf(basicInfo.cost))))

(* ----------------------------------------------------------------------- *)
(* Pipeline Orchestrator                                                   *)
(* ----------------------------------------------------------------------- *)
\* repairAnalysisData returned the _meta object of its argument itself
sharesMeta(analysisData, day) ==
  /\ Truthy(analysisData) /\ TypeOf(analysisData) = "object"
  /\ isModern(analysisData) /\ repairModern(analysisData, day) # Thrown
  /\ Truthy(Get(analysisData, "_meta")) /\ TypeOf(Get(analysisData, "_meta")) = "object"

\* finalizeAnalysisData repairing only what the validator rejects
finalizeGatedOnValidation(analysisData, options, day) ==
  IF options.skipValidation THEN analysisData
  ELSE LET repairedData == IF validate_analysisData(analysisData).isValid THEN analysisData
                           ELSE repairAnalysisData(analysisData, day)
       IN IF Truthy(Get(repairedData, "_meta"))
          THEN With(repairedData, "_meta",
                    With(Get(repairedData, "_meta"), "validation", S("repaired")))
          ELSE repairedData

\* finalizeAnalysisData repairing whatever skipValidation says
finalizeIgnoringSkip(analysisData, options, day) ==
  LET repairedData == repairAnalysisData(analysisData, day)
  IN IF Truthy(Get(repairedData, "_meta"))
     THEN With(repairedData, "_meta",
               With(Get(repairedData, "_meta"), "validation", S("repaired")))
     ELSE repairedData

\* finalizeAnalysisData: the value returned
finalizeAnalysisData(analysisData, options, day) ==
  IF ~options.skipValidation
  THEN LET repairedData == repairAnalysisData(analysisData, day)
       IN IF Truthy(Get(repairedData, "_meta"))
          THEN With(repairedData, "_meta",
                    With(Get(repairedData, "_meta"), "validation", S("repaired")))
          ELSE repairedData
  ELSE analysisData

\* finalizeAnalysisData: its argument afterwards; the tag is written through the
\* _meta object that the argument and the repaired value share
finalizeAliased(analysisData, options, day) ==
  IF ~options.skipValidation /\ sharesMeta(analysisData, day)
  THEN With(analysisData, "_meta", With(Get(analysisData, "_meta"), "validation", S("repaired")))
  ELSE analysisData

\* case 'validatedOpenAI' tagging every result as passed
validatedLevelAlwaysPassed(analysisData) ==
  With(analysisData, "_meta",
       With(With(Get(analysisData, "_meta"), "validation", S("passed")),
            "validationErrors", Arr(<<>>)))

\* case 'validatedOpenAI'
validatedLevel(analysisData) ==
  LET validationResult == validate_analysisData(analysisData)
  IN With(analysisData, "_meta",
          With(With(Get(analysisData, "_meta"), "validation",
                    IF validationResult.isValid THEN S("passed") ELSE S("failed")),
               "validationErrors",
               IF validationResult.isValid THEN Arr(<<>>) ELSE validationResult.errors))

\* case 'repairedOpenAI' repairing what the validator accepts as well
repairedLevelAlwaysRepairs(analysisData, day) ==
  With(repairAnalysisData(analysisData, day), "_meta",
       With(Get(analysisData, "_meta"), "validation",
            IF validate_analysisData(analysisData).isValid THEN S("valid_at_source")
            ELSE S("repaired")))

\* case 'repairedOpenAI'
repairedLevel(analysisData, day) ==
  LET validationResult == validate_analysisData(analysisData)
      metadata == With(Get(analysisData, "_meta"), "validation",
                       IF validationResult.isValid THEN S("valid_at_source")
                       ELSE S("repaired"))
  IN IF validationResult.isValid THEN With(analysisData, "_meta", metadata)
     ELSE With(repairAnalysisData(analysisData, day), "_meta", metadata)

(* ----------------------------------------------------------------------- *)
(* The console                                                             *)
(* ----------------------------------------------------------------------- *)
\* debugLog(message, data, isDebug) on the server: the message is written when isDebug
\* is false or the environment variable DEBUG is 'true'
debugLog(isDebug, envDebug, message) == IF ~isDebug \/ envDebug THEN <<message>> ELSE <<>>

\* what repairAnalysisData(data, debug) writes, evaluated on the day `day`
repairLogs(data, debug, day) ==
  IF ~Truthy(data) \/ TypeOf(data) # "object"
  THEN <<"Invalid data provided to repairAnalysisData">>
  ELSE IF isModern(data)
       THEN (IF repairModern(data, day) = Thrown
             THEN <<"Error repairing analysis data">> ELSE <<>>)
  ELSE IF isLegacy(data)
       THEN (IF debug THEN <<"Repaired data (legacy format)">> ELSE <<>>)
  ELSE <<"Failed to repair data">>

\* what processSingleStepAnalysis and the catch of processCompanyAnalysis write
singleStepLogs(response, envDebug) ==
  IF processSingleStepAnalysis(response) = Thrown
  THEN debugLog(TRUE, envDebug, "Error in processSingleStepAnalysis")
         \o debugLog(TRUE, envDebug, "Error analyzing company")
  ELSE <<>>

\* what getBasicCompanyInfo, processMultiStepAnalysis and the catch of
\* processCompanyAnalysis write: a product is announced before it is added
multiStepLogs(companyName, response, options, envDebug) ==
  LET products == getBasicCompanyInfo(companyName, response).main_products
      unprintable == {i \in 1..Len(products) : ToStringThrows(products[i])}
      announced == IF unprintable = {} THEN Len(products)
                   ELSE (CHOOSE i \in unprintable : \A j \in unprintable : i <= j) - 1
  IN debugLog(options.debug \/ envDebug, envDebug, "Getting basic info")
       \o (IF callOpenAIWithSchema(response) = Thrown
           THEN debugLog(TRUE, envDebug, "Error getting basic company info") ELSE <<>>)
       \o Flatten([i \in 1..announced |-> debugLog(options.debug, envDebug, "Adding product")])
       \o (IF unprintable = {} THEN <<>>
           ELSE debugLog(TRUE, envDebug, "Error analyzing company"))

\* what the switch of processCompanyAnalysis on sourceType writes
processLogs(analysisData, options, envDebug, day) ==
  LET sourceType == IF options.sourceType = "" THEN "transformedOpenAI" ELSE options.sourceType
  IN CASE sourceType = "rawOpenAI" -> <<>>
       [] sourceType = "validatedOpenAI" -> <<>>
       [] sourceType = "repairedOpenAI" ->
            IF validate_analysisData(analysisData).isValid THEN <<>>
            ELSE repairLogs(analysisData, options.debug \/ envDebug, day)
       [] OTHER ->
            IF options.skipValidation THEN <<>>
            ELSE repairLogs(analysisData, options.debug, day)

\* the switch of processCompanyAnalysis returning the analysis as it is under debug
processLevelRawUnderDebug(analysisData, options, day) ==
  LET sourceType == IF options.sourceType = "" THEN "transformedOpenAI" ELSE options.sourceType
  IN IF options.debug THEN analysisData
     ELSE CASE sourceType = "rawOpenAI" -> analysisData
            [] sourceType = "validatedOpenAI" -> validatedLevel(analysisData)
            [] sourceType = "repairedOpenAI" -> repairedLevel(analysisData, day)
            [] OTHER -> finalizeAnalysisData(analysisData, options, day)

\* the switch of processCompanyAnalysis on sourceType
processLevel(analysisData, options, day) ==
  LET sourceType == IF options.sourceType = "" THEN "transformedOpenAI" ELSE options.sourceType
  IN CASE sourceType = "rawOpenAI" -> analysisData
       [] sourceType = "validatedOpenAI" -> validatedLevel(analysisData)
       [] sourceType = "repairedOpenAI" -> repairedLevel(analysisData, day)
       [] OTHER -> finalizeAnalysisData(analysisData, options, day)

(* ----------------------------------------------------------------------- *)
(* Requests, bounded                                                       *)
(* ----------------------------------------------------------------------- *)
CompanyNames == {<<"Acme">>, <<"Globex">>}

Levels == {"rawOpenAI", "validatedOpenAI", "repairedOpenAI", "transformedOpenAI"}

Options ==
  [sourceType : Levels \cup {""}, strategy : {"single", "multi"},
   skipValidation : BOOLEAN, debug : BOOLEAN]

Costs == {[totalTokens |-> 0, costUSD |-> 0], [totalTokens |-> 1200, costUSD |-> 3]}

\* the scenario of a nested, valid analysis
endToEnd ==
  Obj("entity" :>
        Obj(("id" :> Null) @@ ("name_brand" :> S("Acme"))
            @@ ("products" :>
                  Arr(<<Obj(("id" :> Null) @@ ("name_brand" :> S("Widget"))
                            @@ ("details" :> Arr(<<validDetail>>))
                            @@ ("competitors" :>
                                  Arr(<<Obj(("id" :> Null) @@ ("name_brand" :> S("Bolt"))
                                            @@ ("details" :> Arr(<<>>)))>>)))>>))))

\* a product name that is an object with a property toString
Unprintable == Obj("toString" :> Null)

basicInfoData(company_name, main_products, main_competitors) ==
  Obj(("company_name" :> company_name) @@ ("main_products" :> main_products)
      @@ ("main_competitors" :> main_competitors))

BasicInfos ==
  { basicInfoData(cn, mp, mc) :
      cn \in {Undef, S("Acme Inc")},
      mp \in {Undef} \cup {Arr(ps) : ps \in SeqsUpTo({S("Widget"), S("Gadget")}, MaxProducts)},
      mc \in {Arr(cs) : cs \in SeqsUpTo({S("Bolt")}, MaxCompetitors)} }
  \cup { basicInfoData(S("Acme Inc"), Arr(ps), Arr(<<S("Bolt")>>)) :
           ps \in {<<Unprintable>>, <<S("Widget"), Unprintable>>,
                   <<Unprintable, S("Gadget")>>} }

AnalysisPayloads ==
  { Null, Num(42), S("str"), EmptyObj, endToEnd,
    With(endToEnd, "_meta", Obj("validation" :> S("passed"))),
    With(endToEnd, "_meta", S("meta")),
    With(endToEnd, "_meta", Obj("cost" :> S("free"))),
    modern(AUuid, S("Acme"), Undef, Arr(<<validDetail>>), Arr(<<validProduct>>), Undef),
    modern(Undef, Str(<<>>), Undef, Arr(<<EmptyObj>>), Undef, Undef),
    modern(Null, S("Acme"), Undef, Arr(<<Null>>), Arr(<<validProduct>>), Undef),
    modern(Null, Undef, S("AcmeCamel"), Undef, Arr(<<Null, S("gizmo")>>), Undef),
    modern(Null, S("Acme"), Undef,
           Arr(<<camelDetail(S("market_growth_rate"), S("low"), S("news_article"), ADatetime,
                             Num(0))>>),
           Undef, Undef),
    \* ids on the product and on its competitor
    modern(AUuid, S("Acme"), Undef, Undef,
           Arr(<<Obj(("id" :> AUuid) @@ ("name_brand" :> S("Widget"))
                     @@ ("competitors" :>
                           Arr(<<Obj(("id" :> AUuid) @@ ("name_brand" :> S("Bolt")))>>)))>>),
           Undef),
    Obj("entity" :> Null),
    Obj(("company_name" :> S("Acme")) @@ ("products" :> Arr(<<Obj("name" :> S("Widget"))>>))),
    Obj(("company" :> Obj("name" :> S("Acme"))) @@ ("products" :> Arr(<<Null>>))
        @@ ("_meta" :> Obj("validation" :> S("passed")))) }

\* the message of a completion: the JSON found in tool_calls, function_call, content
Messages ==
  { [tool_calls |-> p, function_call |-> Null, content |-> Null] :
      p \in AnalysisPayloads \cup BasicInfos }
  \cup { [tool_calls |-> Null, function_call |-> endToEnd, content |-> EmptyObj],
         [tool_calls |-> Num(0), function_call |-> Null, content |-> endToEnd] }

Responses ==
  {[kind |-> "error"]}
  \cup {[kind |-> "completion", message |-> m, cost |-> c] : m \in Messages, c \in Costs}

(* ----------------------------------------------------------------------- *)
(* State                                                                   *)
(* ----------------------------------------------------------------------- *)
VARIABLES
  pc,           \* where processCompanyAnalysis is: idle, called, responded, generated,
                \* returned, failed
  companyName,  \* its first argument
  options,      \* its second argument
  response,     \* what the provider answered to the outbound call
  raw,          \* analysisData, the result of the generation strategy
  result,       \* the value processCompanyAnalysis resolves with
  day,          \* the date of the clock
  step,         \* where the direct use of the validator and of the repair is
  data,         \* the value handed to validate.analysisData and repairAnalysisData
  repaired,     \* repairAnalysisData(data)
  again,        \* repairAnalysisData(repaired)
  validation,   \* the last result of validate.analysisData
  env,          \* process.env.DEBUG === 'true'
  logged,       \* the lines that openai.ts and repairAnalysisData wrote to the console
  requests,     \* the calls of processCompanyAnalysis that run at the same time
  heap          \* the _meta objects of those calls, by the address of each

vars ==
  <<pc, companyName, options, response, raw, result, day, step, data, repaired, again,
    validation, env, logged, requests, heap>>

concurrentVars == <<requests, heap>>

pipelineVars == <<pc, companyName, options, response, raw, result>>

directVars == <<step, data, repaired, again, validation>>

None == [t |-> "none"]

NoOptions == [sourceType |-> "", strategy |-> "single", skipValidation |-> FALSE, debug |-> FALSE]

NoValidation == [isValid |-> FALSE, errors |-> None]

(* ----------------------------------------------------------------------- *)
(* processCompanyAnalysis                                                  *)
(* ----------------------------------------------------------------------- *)
Init ==
  /\ pc = "idle" /\ companyName = <<>> /\ options = NoOptions
  /\ response = [kind |-> "none"] /\ raw = None /\ result = None
  /\ day \in DateParts
  /\ step = "off" /\ data = None /\ repaired = None /\ again = None
  /\ validation = NoValidation
  /\ env \in BOOLEAN /\ logged = <<>>
  /\ requests = <<>> /\ heap = <<>>

\* processCompanyAnalysis(companyName, options) is called
Call ==
  /\ pc = "idle"
  /\ \E name \in CompanyNames, opts \in Options :
       /\ companyName' = name
       /\ options' = opts
  /\ pc' = "called"
  /\ logged' = debugLog(options'.debug \/ env, env, "Processing analysis")
  /\ UNCHANGED <<response, raw, result, day, directVars, env, concurrentVars>>

\* the provider answers the one outbound call of the request
Respond ==
  /\ pc = "called"
  /\ response' \in Responses
  /\ pc' = "responded"
  /\ UNCHANGED <<companyName, options, raw, result, day, directVars, env, logged, concurrentVars>>

\* strategy single: processSingleStepAnalysis resolves, or its error is rethrown
SingleStep ==
  /\ pc = "responded" /\ options.strategy = "single"
  /\ IF processSingleStepAnalysis(response) = Thrown
     THEN pc' = "failed" /\ raw' = raw
     ELSE pc' = "generated" /\ raw' = processSingleStepAnalysis(response)
  /\ logged' = logged \o singleStepLogs(response, env)
  /\ UNCHANGED <<companyName, options, response, result, day, directVars, env, concurrentVars>>

\* strategy multi: processMultiStepAnalysis resolves, or its error is rethrown
MultiStep ==
  /\ pc = "responded" /\ options.strategy = "multi"
  /\ IF processMultiStepAnalysis(companyName, response, day) = Thrown
     THEN pc' = "failed" /\ raw' = raw
     ELSE pc' = "generated" /\ raw' = processMultiStepAnalysis(companyName, response, day)
  /\ logged' = logged \o multiStepLogs(companyName, response, options, env)
  /\ UNCHANGED <<companyName, options, response, result, day, directVars, env, concurrentVars>>

\* the switch on sourceType; finalizeAnalysisData writes through a shared _meta
Process ==
  /\ pc = "generated"
  /\ result' = processLevel(raw, options, day)
  /\ raw' = IF options.sourceType \in {"", "transformedOpenAI"}
            THEN finalizeAliased(raw, options, day) ELSE raw
  /\ pc' = "returned"
  /\ logged' = logged \o processLogs(raw, options, env, day)
  /\ UNCHANGED <<companyName, options, response, day, directVars, env, concurrentVars>>

Next == Call \/ Respond \/ SingleStep \/ MultiStep \/ Process

Spec == Init /\ [][Next]_vars

(* ----------------------------------------------------------------------- *)
(* The validator and the repair applied directly to a value                *)
(* ----------------------------------------------------------------------- *)
InitDirect ==
  /\ pc = "off" /\ companyName = <<>> /\ options = NoOptions
  /\ response = [kind |-> "none"] /\ raw = None /\ result = None
  /\ day \in DateParts
  /\ step = "start" /\ data \in Inputs /\ repaired = None /\ again = None
  /\ validation = NoValidation
  /\ env = FALSE /\ logged = <<>>
  /\ requests = <<>> /\ heap = <<>>

\* repairAnalysisData(data)
Repair ==
  /\ step \in {"start", "validated"}
  /\ repaired' = repairAnalysisData(data, day)
  /\ step' = IF step = "start" THEN "repaired" ELSE "validatedRepaired"
  /\ UNCHANGED <<pipelineVars, day, data, again, validation, env, logged, concurrentVars>>

\* repairAnalysisData(repairAnalysisData(data)), on the same day
RepairAgain ==
  /\ step = "repaired"
  /\ again' = repairAnalysisData(repaired, day)
  /\ step' = "repairedTwice"
  /\ UNCHANGED <<pipelineVars, day, data, repaired, validation, env, logged, concurrentVars>>

\* validate.analysisData(data)
Validate ==
  /\ step = "start"
  /\ validation' = validate_analysisData(data)
  /\ step' = "validated"
  /\ UNCHANGED <<pipelineVars, day, data, repaired, again, env, logged, concurrentVars>>

\* validate.analysisData(repairAnalysisData(data))
ValidateRepaired ==
  /\ step = "repaired"
  /\ validation' = validate_analysisData(repaired)
  /\ step' = "repairedValidated"
  /\ UNCHANGED <<pipelineVars, day, data, repaired, again, env, logged, concurrentVars>>

\* transformToEnhancedCompanyData(data, companyName)
Transform ==
  /\ step = "start"
  /\ \E name \in CompanyNames :
       /\ companyName' = name
       /\ result' = transformToEnhancedCompanyData(data, name, day)
  /\ step' = "projected"
  /\ UNCHANGED <<pc, options, response, raw, day, data, repaired, again, validation, env, logged, concurrentVars>>

NextDirect == Repair \/ RepairAgain \/ Validate \/ ValidateRepaired \/ Transform

SpecDirect == InitDirect /\ [][NextDirect]_vars

(* ----------------------------------------------------------------------- *)
(* Calls of processCompanyAnalysis that run at the same time               *)
(* ----------------------------------------------------------------------- *)
MaxRequests == 2

RequestIds == 1..MaxRequests

\* the calls: every level, the strategy single
ConcurrentOptions ==
  [sourceType : Levels, strategy : {"single"}, skipValidation : {FALSE}, debug : {FALSE}]

\* the answers: no answer, the modern shape, the legacy flat shape, an unrecognized shape
ConcurrentResponses ==
  {[kind |-> "error"]}
  \cup {[kind |-> "completion",
         message |-> [tool_calls |-> p, function_call |-> Null, content |-> Null],
         cost |-> [totalTokens |-> 1200, costUSD |-> 3]] :
          p \in {endToEnd, EmptyObj,
                 Obj(("company_name" :> S("Acme"))
                     @@ ("products" :> Arr(<<Obj("name" :> S("Widget"))>>)))}}

NoAddress == [owner |-> 0, site |-> "none"]

\* a value that is not there yet
NoReference == [body |-> None, meta |-> NoAddress]

\* an object literal evaluated once, when the module is loaded: one object for all calls
allocateOnce(r, site) == [owner |-> 0, site |-> site]

\* an object literal is evaluated: the call r creates an object of its own at the site
allocate(r, site) == [owner |-> r, site |-> site]

\* the object at the address a becomes v
store(h, a, v) == [x \in DOMAIN h \cup {a} |-> IF x = a THEN v ELSE h[x]]

\* the value a reference stands for: its _meta is the object at its address
deref(h, ref) == With(ref.body, "_meta", h[ref.meta])

\* the _meta object of the value repairAnalysisData(analysisData) returns, for the call
\* r whose analysisData has its _meta at the address meta: that very object in CASE 1,
\* the _meta of newData in CASE 2, the _meta of defaultData otherwise
repairedMeta(r, analysisData, meta, date) ==
  IF sharesMeta(analysisData, date) THEN meta
  ELSE IF repairAnalysisData(analysisData, date) = defaultData THEN allocate(r, "defaultData")
  ELSE allocate(r, "newData")

InitConcurrent ==
  /\ pc = "off" /\ companyName = <<>> /\ options = NoOptions
  /\ response = [kind |-> "none"] /\ raw = None /\ result = None
  /\ day \in DateParts
  /\ step = "off" /\ data = None /\ repaired = None /\ again = None
  /\ validation = NoValidation
  /\ env = FALSE /\ logged = <<>>
  /\ requests = [r \in RequestIds |->
                   [pc |-> "idle", companyName |-> <<>>, options |-> NoOptions,
                    response |-> [kind |-> "none"], raw |-> NoReference,
                    result |-> NoReference]]
  /\ heap = <<>>

sequentialVars ==
  <<pc, companyName, options, response, raw, result, day, step, data, repaired, again,
    validation, env, logged>>

\* processCompanyAnalysis(companyName, options) is called
Arrive(r) ==
  /\ requests[r].pc = "idle"
  /\ \E opts \in ConcurrentOptions :
       requests' = [requests EXCEPT ![r].pc = "called", ![r].companyName = <<"Acme">>,
                                    ![r].options = opts]
  /\ UNCHANGED <<sequentialVars, heap>>

\* the provider answers the outbound call of r
Answer(r) ==
  /\ requests[r].pc = "called"
  /\ \E resp \in ConcurrentResponses :
       requests' = [requests EXCEPT ![r].pc = "responded", ![r].response = resp]
  /\ UNCHANGED <<sequentialVars, heap>>

\* processSingleStepAnalysis resumes after the call: the parsed payload is an object of
\* r, and so is its _meta
Generate(r) ==
  /\ requests[r].pc = "responded"
  /\ IF processSingleStepAnalysis(requests[r].response) = Thrown
     THEN /\ requests' = [requests EXCEPT ![r].pc = "failed"]
          /\ heap' = heap
     ELSE /\ requests' =
               [requests EXCEPT
                  ![r].pc = "generated",
                  ![r].raw = [body |-> processSingleStepAnalysis(requests[r].response),
                              meta |-> allocate(r, "parsed")]]
          /\ heap' = store(heap, allocate(r, "parsed"),
                           Get(processSingleStepAnalysis(requests[r].response), "_meta"))
  /\ UNCHANGED sequentialVars

\* case 'rawOpenAI': the analysis itself is returned
ReturnRaw(r) ==
  /\ requests[r].pc = "generated" /\ requests[r].options.sourceType = "rawOpenAI"
  /\ requests' = [requests EXCEPT ![r].pc = "returned", ![r].result = requests[r].raw]
  /\ UNCHANGED <<sequentialVars, heap>>

\* case 'validatedOpenAI': { ...analysisData, _meta: { ... } } is a new _meta object
ReturnValidated(r) ==
  /\ requests[r].pc = "generated" /\ requests[r].options.sourceType = "validatedOpenAI"
  /\ LET analysisData == deref(heap, requests[r].raw)
     IN /\ requests' = [requests EXCEPT
                          ![r].pc = "returned",
                          ![r].result = [body |-> validatedLevel(analysisData),
                                         meta |-> allocate(r, "spread")]]
        /\ heap' = store(heap, allocate(r, "spread"),
                         Get(validatedLevel(analysisData), "_meta"))
  /\ UNCHANGED sequentialVars

\* case 'repairedOpenAI': metadata is a new object; repairAnalysisData, where it is
\* called, creates its defaultData
ReturnRepaired(r) ==
  /\ requests[r].pc = "generated" /\ requests[r].options.sourceType = "repairedOpenAI"
  /\ LET analysisData == deref(heap, requests[r].raw)
         called == ~validate_analysisData(analysisData).isValid
         created == IF called
                    THEN store(heap, allocate(r, "defaultData"), Get(defaultData, "_meta"))
                    ELSE heap
     IN /\ requests' = [requests EXCEPT
                          ![r].pc = "returned",
                          ![r].result = [body |-> repairedLevel(analysisData, day),
                                         meta |-> allocate(r, "spread")]]
        /\ heap' = store(created, allocate(r, "spread"),
                         Get(repairedLevel(analysisData, day), "_meta"))
  /\ UNCHANGED sequentialVars

\* case 'transformedOpenAI': finalizeAnalysisData. repairAnalysisData creates its
\* defaultData and, in CASE 1 and CASE 2, its newData; the tag is then written into
\* the _meta object of the value it returned
ReturnTransformed(r) ==
  /\ requests[r].pc = "generated" /\ requests[r].options.sourceType = "transformedOpenAI"
  /\ LET analysisData == deref(heap, requests[r].raw)
         repairedData == repairAnalysisData(analysisData, day)
         meta == repairedMeta(r, analysisData, requests[r].raw.meta, day)
         created == store(store(heap, allocate(r, "defaultData"), Get(defaultData, "_meta")),
                          meta, Get(repairedData, "_meta"))
     IN /\ requests' = [requests EXCEPT
                          ![r].pc = "returned",
                          ![r].result = [body |-> repairedData, meta |-> meta]]
        /\ heap' = store(created, meta, With(created[meta], "validation", S("repaired")))
  /\ UNCHANGED sequentialVars

NextConcurrent ==
  \E r \in RequestIds :
    \/ Arrive(r) \/ Answer(r) \/ Generate(r)
    \/ ReturnRaw(r) \/ ReturnValidated(r) \/ ReturnRepaired(r) \/ ReturnTransformed(r)

SpecConcurrent == InitConcurrent /\ [][NextConcurrent]_vars

(* ----------------------------------------------------------------------- *)
(* Reading values                                                          *)
(* ----------------------------------------------------------------------- *)
\* x.k when it is an array, as a sequence; the empty sequence otherwise
listOf(x, k) == IF IsArray(Get(x, k)) THEN Get(x, k).a ELSE <<>>

entityOf(x) == Get(x, "entity")

productsOf(x) == listOf(entityOf(x), "products")

isNonEmptyString(x) == x.t = "str" /\ x.s # <<>>

\* every field present in x has the same value in y
RECURSIVE preserved(_, _)
preserved(x, y) ==
  CASE x.t = "obj" ->
         /\ y.t = "obj"
         /\ \A k \in DOMAIN x.o : k \in DOMAIN y.o /\ preserved(x.o[k], y.o[k])
    [] x.t = "arr" ->
         /\ y.t = "arr" /\ Len(y.a) = Len(x.a)
         /\ \A i \in 1..Len(x.a) : preserved(x.a[i], y.a[i])
    [] OTHER -> y = x

(* ----------------------------------------------------------------------- *)
(* C1 - C10                                                                *)
(* ----------------------------------------------------------------------- *)

\* C1: repairAnalysisData(v) returns, for every v, a value whose entity.name_brand is
\* a non-empty string and whose entity.products is an array.
C1_RepairTotal ==
  step = "repaired" =>
    /\ isNonEmptyString(Get(entityOf(repaired), "name_brand"))
    /\ IsArray(Get(entityOf(repaired), "products"))

\* C2: the validator accepts whatever repairAnalysisData returns.
C2_RepairedIsValid == step = "repairedValidated" => validation.isValid

isTransformed == options.sourceType \in {"", "transformedOpenAI"}

\* C3: at level transformedOpenAI without skipValidation the result is tagged
\* "repaired" and carries the entity of repairAnalysisData(raw), valid raw or not.
C3_TransformedIsRepaired ==
  (pc = "returned" /\ isTransformed /\ ~options.skipValidation) =>
    /\ Get(Get(result, "_meta"), "validation") = S("repaired")
    /\ entityOf(result) = entityOf(repairAnalysisData(raw, day))

C3_Witness ==
  /\ pc = "returned" /\ isTransformed /\ ~options.skipValidation
  /\ validate_analysisData(raw).isValid
  /\ Get(entityOf(raw), "id") # Null
  /\ Get(Get(result, "_meta"), "validation") = S("repaired")

\* the outbound LLM call failed: the call itself, or the extraction of JSON
callFailed == response.kind # "none" /\ callOpenAIWithSchema(response) = Thrown

\* C4 as claimed: with either strategy a failed LLM call makes processCompanyAnalysis
\* fail; it never returns a result.
C4_FailurePropagates == callFailed => pc \notin {"generated", "returned"}

emptyCompany(x) ==
  /\ entityOf(x) = Obj(("id" :> Null) @@ ("name_brand" :> Str(companyName))
                       @@ ("details" :> Arr(<<>>)) @@ ("products" :> Arr(<<>>)))
  /\ Get(Get(x, "_meta"), "cost") = costOf([totalTokens |-> 0, costUSD |-> 0])

\* C4 amended: with strategy single a failed LLM call makes processCompanyAnalysis
\* fail without a result; with strategy multi getBasicCompanyInfo catches the failure
\* and the result is the company named as requested, without products, at zero cost.
C4_FailureBySingleOnly ==
  callFailed =>
    /\ options.strategy = "single" => pc \in {"responded", "failed"} /\ result = None
    /\ options.strategy = "multi" =>
         /\ pc # "failed"
         /\ pc = "generated" => emptyCompany(raw)
         /\ pc = "returned" => emptyCompany(result)

C4_Witness ==
  /\ pc = "failed" /\ options.strategy = "single" /\ callFailed /\ result = None

\* the response carries no JSON but null
nullPayload ==
  /\ response.kind = "completion"
  /\ response.message = [tool_calls |-> Null, function_call |-> Null, content |-> Null]

\* the validation tag of a level, on a valid raw result
levelMeta(level, skip) ==
  LET cost == "cost" :> costOf([totalTokens |-> 0, costUSD |-> 0])
  IN CASE level = "rawOpenAI" -> Obj(cost)
       [] level = "validatedOpenAI" ->
            Obj(cost @@ ("validation" :> S("passed")) @@ ("validationErrors" :> Arr(<<>>)))
       [] level = "repairedOpenAI" -> Obj(cost @@ ("validation" :> S("valid_at_source")))
       [] OTHER -> IF skip THEN Obj(cost) ELSE Obj(cost @@ ("validation" :> S("repaired")))

C6_RepairIdempotent == step = "repairedTwice" => again = repaired

\* C7: a value the validator accepts comes out of repairAnalysisData with every field
\* it had, unchanged.
C7_ValidIsPreserved ==
  (step = "validatedRepaired" /\ validation.isValid) => preserved(data, repaired)

CamelKeys == {"typeResearchDetail", "dataConfidence", "sourceType", "asOfDate", "discreteValue"}

\* a Detail-like object that carries the camelCase keys and no other
camelOnly(d) ==
  /\ d.t = "obj" /\ DOMAIN d.o = CamelKeys
  /\ \A k \in CamelKeys \ {"discreteValue"} : d.o[k].t = "str"
  /\ d.o["discreteValue"].t = "num"

\* every element of every list of details is an object
detailsAreObjects(x) ==
  /\ \A i \in 1..Len(listOf(entityOf(x), "details")) :
       listOf(entityOf(x), "details")[i].t = "obj"
  /\ \A p \in 1..Len(productsOf(x)) :
       /\ \A i \in 1..Len(listOf(productsOf(x)[p], "details")) :
            listOf(productsOf(x)[p], "details")[i].t = "obj"
       /\ \A c \in 1..Len(listOf(productsOf(x)[p], "competitors")) :
            \A i \in 1..Len(listOf(listOf(productsOf(x)[p], "competitors")[c], "details")) :
              listOf(listOf(productsOf(x)[p], "competitors")[c], "details")[i].t = "obj"

\* the Detail o has the values of the camelCase keys of d
camelCopied(d, o) ==
  /\ Get(o, "type_research_detail") = Get(d, "typeResearchDetail")
  /\ Get(o, "data_confidence") = Get(d, "dataConfidence")
  /\ Get(o, "source_type") = Get(d, "sourceType")
  /\ Get(o, "as_of_date") = Get(d, "asOfDate")
  /\ Get(o, "discrete_value") = Get(d, "discreteValue")

\* the same, an empty string being replaced by the default of its field
camelCopiedOrDefault(d, o) ==
  /\ Get(o, "type_research_detail") = Or(Get(d, "typeResearchDetail"), S("market_share_estimate"))
  /\ Get(o, "data_confidence") = Or(Get(d, "dataConfidence"), S("medium"))
  /\ Get(o, "source_type") = Or(Get(d, "sourceType"), S("analyst_estimate"))
  /\ Get(o, "as_of_date") = Or(Get(d, "asOfDate"), Str(<<day>>))
  /\ Get(o, "discrete_value") = Get(d, "discreteValue")

\* the camelCase-only details of the products and of the competitors are copied
nestedCamelCopied ==
  \A p \in 1..Len(productsOf(data)) :
    /\ \A i \in 1..Len(listOf(productsOf(data)[p], "details")) :
         camelOnly(listOf(productsOf(data)[p], "details")[i]) =>
           camelCopied(listOf(productsOf(data)[p], "details")[i],
                       listOf(productsOf(repaired)[p], "details")[i])
    /\ \A c \in 1..Len(listOf(productsOf(data)[p], "competitors")) :
         \A i \in 1..Len(listOf(listOf(productsOf(data)[p], "competitors")[c], "details")) :
           camelOnly(listOf(listOf(productsOf(data)[p], "competitors")[c], "details")[i]) =>
             camelCopied(
               listOf(listOf(productsOf(data)[p], "competitors")[c], "details")[i],
               listOf(listOf(productsOf(repaired)[p], "competitors")[c], "details")[i])

camelCase == step = "repaired" /\ isModern(data) /\ detailsAreObjects(data)

legacyCase ==
  /\ step = "repaired" /\ data.t = "obj"
  /\ ~(Truthy(entityOf(data)) /\ TypeOf(entityOf(data)) = "object")
  /\ Get(data, "company") = Undef
  /\ isNonEmptyString(Get(data, "company_name"))
  /\ IsArray(Get(data, "products"))

\* the output of the legacy flat shape but for the names of the products
legacyShape ==
  /\ Get(entityOf(repaired), "name_brand") = Get(data, "company_name")
  /\ Len(productsOf(repaired)) = Len(listOf(data, "products"))
  /\ \A i \in 1..Len(productsOf(repaired)) :
       /\ Get(productsOf(repaired)[i], "details") = Arr(<<>>)
       /\ Len(listOf(productsOf(repaired)[i], "competitors"))
            = Len(listOf(listOf(data, "products")[i], "competitors"))
       /\ \A c \in 1..Len(listOf(productsOf(repaired)[i], "competitors")) :
            Get(listOf(productsOf(repaired)[i], "competitors")[c], "details") = Arr(<<>>)

\* C9 as claimed: the legacy flat shape gives the company its company_name, every
\* product its string name, in order, and no details to products or competitors.
C9_LegacyNamesCopied ==
  legacyCase =>
    /\ legacyShape
    /\ \A i \in 1..Len(listOf(data, "products")) :
         Get(listOf(data, "products")[i], "name").t = "str" =>
           Get(productsOf(repaired)[i], "name_brand") = Get(listOf(data, "products")[i], "name")

\* C9 amended: the same, a product getting its name when that is a non-empty string.
C9_LegacyNonEmptyNamesCopied ==
  legacyCase =>
    /\ legacyShape
    /\ \A i \in 1..Len(listOf(data, "products")) :
         isNonEmptyString(Get(listOf(data, "products")[i], "name")) =>
           Get(productsOf(repaired)[i], "name_brand") = Get(listOf(data, "products")[i], "name")

C9_Witness ==
  /\ legacyCase
  /\ Len(listOf(data, "products")) = 2
  /\ Get(listOf(data, "products")[2], "name") = S("Widget")
  /\ Get(productsOf(repaired)[2], "name_brand") = S("Widget")
  /\ Get(entityOf(repaired), "name_brand") = S("Acme")

\* the error text starts with the path entity.name_brand
namesNameBrand(e) == Len(e.s) >= 3 /\ SubSeq(e.s, 1, 3) = <<"entity", ".", "name_brand">>

\* the input of C10: an entity object without a string name_brand
namelessCase ==
  /\ step = "validated" /\ data.t = "obj" /\ entityOf(data).t = "obj"
  /\ TypeOf(Get(entityOf(data), "name_brand")) # "string"

\* C10: an entity object without name_brand, or with one that is no string, is
\* rejected with an error whose path is entity.name_brand.
C10_NameBrandRequired ==
  namelessCase =>
    /\ ~validation.isValid
    /\ \E i \in 1..Len(validation.errors.a) : namesNameBrand(validation.errors.a[i])

C10_Witness ==
  /\ namelessCase
  /\ Get(entityOf(data), "name_brand") = Undef
  /\ Get(entityOf(data), "products") = Arr(<<>>)
  /\ ~validation.isValid

(* ----------------------------------------------------------------------- *)
(* C11 - C20                                                               *)
(* ----------------------------------------------------------------------- *)

\* C11: validate.analysisData returns for every input a result with a boolean isValid,
\* and with a non-empty list of errors whenever isValid is false.
C11_ValidateTotal ==
  step \in {"validated", "repairedValidated"} =>
    /\ validation.isValid \in BOOLEAN
    /\ ~validation.isValid => IsArray(validation.errors) /\ Len(validation.errors.a) >= 1

C11_Witness ==
  /\ step = "validated" /\ data.t \in {"null", "arr", "num"}
  /\ ~validation.isValid /\ Len(validation.errors.a) = 1

\* the details of the root entity, of its products and of their competitors
allDetails(x) ==
  listOf(entityOf(x), "details")
  \o Flatten([p \in 1..Len(productsOf(x)) |->
       listOf(productsOf(x)[p], "details")
       \o Flatten([c \in 1..Len(listOf(productsOf(x)[p], "competitors")) |->
            listOf(listOf(productsOf(x)[p], "competitors")[c], "details")])])

outside(d, k, values) == Get(d, k).t = "str" /\ Get(d, k).s \notin values

\* a Detail with a string outside its enumeration
unknownEnum(d) ==
  \/ outside(d, "type_research_detail", researchDetailTypes)
  \/ outside(d, "data_confidence", dataConfidence)
  \/ outside(d, "source_type", sourceTypes)

hasUnknownEnum(x) == \E i \in 1..Len(allDetails(x)) : unknownEnum(allDetails(x)[i])

\* d with a member of the enumeration in the place of every string outside it
knownEnums(d) ==
  LET known(o, k, values, v) == IF outside(o, k, values) THEN With(o, k, v) ELSE o
  IN known(known(known(d, "type_research_detail", researchDetailTypes,
                       S("market_share_estimate")),
                 "data_confidence", dataConfidence, S("medium")),
           "source_type", sourceTypes, S("analyst_estimate"))

withKnownDetails(x) ==
  IF IsArray(Get(x, "details"))
  THEN With(x, "details", Arr([i \in 1..Len(Get(x, "details").a) |->
                                 knownEnums(Get(x, "details").a[i])]))
  ELSE x

withKnownList(x, k, Known(_)) ==
  IF IsArray(Get(x, k))
  THEN With(x, k, Arr([i \in 1..Len(Get(x, k).a) |-> Known(Get(x, k).a[i])]))
  ELSE x

\* x with the strings outside the enumerations replaced in every Detail
withKnownEnums(x) ==
  LET competitor(c) == IF c.t = "obj" THEN withKnownDetails(c) ELSE c
      product(p) == IF p.t = "obj"
                    THEN withKnownList(withKnownDetails(p), "competitors", competitor)
                    ELSE p
  IN IF x.t = "obj" /\ entityOf(x).t = "obj"
     THEN With(x, "entity", withKnownList(withKnownDetails(entityOf(x)), "products", product))
     ELSE x

\* an input that is well-shaped but for the values of its enumerations
unknownEnumCase ==
  /\ step = "validated" /\ hasUnknownEnum(data)
  /\ validate_analysisData(withKnownEnums(data)).isValid

\* C12 as claimed: an input that is well-shaped but for a Detail with a string outside
\* its enumeration is reported with isValid true.
C12_UnknownEnumAccepted == unknownEnumCase => validation.isValid

isEnumError(e) == e.s[Len(e.s)] = "Invalid enum value"

\* C12 amended: an input with a Detail whose type_research_detail, data_confidence or
\* source_type is a string outside its enumeration is reported with isValid false and
\* with an error "Invalid enum value".
C12_UnknownEnumRejected ==
  (step = "validated" /\ hasUnknownEnum(data)) =>
    /\ ~validation.isValid
    /\ \E i \in 1..Len(validation.errors.a) : isEnumError(validation.errors.a[i])

C12_Witness ==
  /\ unknownEnumCase /\ ~validation.isValid
  /\ \A i \in 1..Len(validation.errors.a) : isEnumError(validation.errors.a[i])

inEnum(d, k, values) == Get(d, k).t = "str" /\ Get(d, k).s \in values

\* C13: in every value repairAnalysisData returns, every Detail of the root entity, of
\* a product and of a competitor has its type_research_detail, data_confidence and
\* source_type in their enumerations.
C13_RepairedEnums ==
  step = "repaired" =>
    \A i \in 1..Len(allDetails(repaired)) :
      /\ inEnum(allDetails(repaired)[i], "type_research_detail", researchDetailTypes)
      /\ inEnum(allDetails(repaired)[i], "data_confidence", dataConfidence)
      /\ inEnum(allDetails(repaired)[i], "source_type", sourceTypes)

validationOf(x) == Get(Get(x, "_meta"), "validation")

atRepaired == pc = "returned" /\ options.sourceType = "repairedOpenAI"

\* C14: at level repairedOpenAI a raw result the validator accepts is returned
\* unchanged but for _meta.validation = "valid_at_source"; one it rejects is returned
\* with the entity of repairAnalysisData(raw) and _meta.validation = "repaired".
C14_RepairedLevel ==
  atRepaired =>
    IF validate_analysisData(raw).isValid
    THEN result = With(raw, "_meta",
                       With(Get(raw, "_meta"), "validation", S("valid_at_source")))
    ELSE /\ entityOf(result) = entityOf(repairAnalysisData(raw, day))
         /\ validationOf(result) = S("repaired")

C14_Witness ==
  /\ atRepaired /\ ~validate_analysisData(raw).isValid
  /\ entityOf(result) # entityOf(raw)
  /\ validationOf(result) = S("repaired")

atValidated == pc = "returned" /\ options.sourceType = "validatedOpenAI"

\* C15: at level validatedOpenAI the result has the entity of the raw result;
\* _meta.validation is "passed" when the validator accepts the raw result and "failed"
\* when it does not, and the list of errors is empty exactly when the tag is "passed".
C15_ValidatedLevel ==
  atValidated =>
    /\ entityOf(result) = entityOf(raw)
    /\ validationOf(result) =
         IF validate_analysisData(raw).isValid THEN S("passed") ELSE S("failed")
    /\ IsArray(Get(Get(result, "_meta"), "validationErrors"))
    /\ Get(Get(result, "_meta"), "validationErrors") = Arr(<<>>)
         <=> validationOf(result) = S("passed")

C15_Witness ==
  /\ atValidated /\ validationOf(result) = S("failed")
  /\ Len(Get(Get(result, "_meta"), "validationErrors").a) >= 1
  /\ entityOf(result) = entityOf(raw)
  /\ entityOf(raw) # entityOf(repairAnalysisData(raw, day))

unprocessed ==
  /\ pc = "returned"
  /\ \/ options.sourceType = "rawOpenAI"
     \/ isTransformed /\ options.skipValidation

constructs(productName) == ~ToStringThrows(productName)

\* C18: with strategy multi, a product whose skeleton cannot be constructed is left
\* out: the result has the products constructed, in order, and the request does not
\* fail.
C18_FailedProductOmitted ==
  (options.strategy = "multi" /\ pc \in {"failed", "generated"}) =>
    /\ pc = "generated"
    /\ [i \in 1..Len(productsOf(raw)) |-> Get(productsOf(raw)[i], "name_brand")]
         = SelectSeq(getBasicCompanyInfo(companyName, response).main_products, constructs)

\* the levels at which the Repair Engine rebuilds the raw result
rebuilt ==
  /\ pc = "returned"
  /\ \/ isTransformed /\ ~options.skipValidation
     \/ options.sourceType = "repairedOpenAI" /\ ~validate_analysisData(raw).isValid

hasName(x) == Get(entityOf(x), "name_brand").t = "str"

hasProducts(x) == IsArray(Get(entityOf(x), "products"))

idsOf(x) ==
  <<Get(entityOf(x), "id")>>
  \o Flatten([p \in 1..Len(productsOf(x)) |->
       <<Get(productsOf(x)[p], "id")>>
       \o [c \in 1..Len(listOf(productsOf(x)[p], "competitors")) |->
             Get(listOf(productsOf(x)[p], "competitors")[c], "id")]])

idsAreNull(x) == \A i \in 1..Len(idsOf(x)) : idsOf(x)[i] = Null

\* C19 as claimed: at every level every id of the value returned is null.
C19_IdsAreNull == pc = "returned" => idsAreNull(result)

\* C19 amended: every id of the value returned is null where the Repair Engine rebuilt
\* the raw result; at level repairedOpenAI with a raw result the validator accepts the
\* ids are those of the raw result.
C19_IdsAreNullWhenRebuilt ==
  pc = "returned" =>
    /\ rebuilt => idsAreNull(result)
    /\ (options.sourceType = "repairedOpenAI" /\ validate_analysisData(raw).isValid) =>
         idsOf(result) = idsOf(raw)

C19_Witness ==
  /\ rebuilt /\ Len(idsOf(raw)) = 3 /\ \A i \in 1..3 : idsOf(raw)[i] = AUuid
  /\ idsOf(result) = <<Null, Null, Null>>

\* C20: the _meta.cost of the value returned is the cost the transport layer reported
\* for the request.
C20_CostIsPassedThrough ==
  (pc = "returned" /\ callOpenAIWithSchema(response) # Thrown) =>
    Get(Get(result, "_meta"), "cost") = costOf(response.cost)

(* ----------------------------------------------------------------------- *)
(* C21 - C30                                                               *)
(* ----------------------------------------------------------------------- *)

\* the Detail made of the defaults of the fields
defaultDetail ==
  Obj(("type_research_detail" :> S("market_share_estimate")) @@ ("data_confidence" :> S("medium"))
      @@ ("source_type" :> S("analyst_estimate")) @@ ("as_of_date" :> Str(<<day>>)))

\* the modern shape with an element of details that is no object
nonObjectDetailCase ==
  /\ step = "repaired" /\ data.t = "obj" /\ entityOf(data).t = "obj"
  /\ \E i \in 1..Len(allDetails(data)) : allDetails(data)[i].t # "obj"

\* C23: in the modern shape an element of details that is no object gives the Detail
\* of the defaults at its position, and the rest of the input is extracted: the name
\* of the company, and as many products, competitors and details as the input has.
C23_NonObjectDetailDefaults ==
  nonObjectDetailCase =>
    /\ Get(entityOf(repaired), "name_brand") = nameBrand(entityOf(data), "Unknown Company")
    /\ Len(productsOf(repaired)) = Len(productsOf(data))
    /\ Len(allDetails(repaired)) = Len(allDetails(data))
    /\ \A i \in 1..Len(allDetails(repaired)) :
         allDetails(data)[i].t # "obj" => allDetails(repaired)[i] = defaultDetail

firstProduct(x) == productsOf(x)[1]

firstCompetitor(x) == listOf(firstProduct(x), "competitors")[1]

\* one Detail-like object on the root, on the first product and on its first competitor
sameDetailCase ==
  /\ step = "repaired" /\ data \in ModernSameDetail
  /\ listOf(entityOf(data), "details")[1].t = "obj"

\* C24: the Detail built from d is the same whether d is among the details of the root
\* entity, of a product or of a competitor.
C24_SameDetailEverywhere ==
  sameDetailCase =>
    /\ Get(firstProduct(repaired), "details") = Get(entityOf(repaired), "details")
    /\ Get(firstCompetitor(repaired), "details") = Get(entityOf(repaired), "details")

\* the candidates of the company name of the legacy flat shape, in order
candidates(x) ==
  (IF Get(x, "company").t = "obj"
   THEN <<Get(Get(x, "company"), "name"), Get(Get(x, "company"), "company_name"),
          Get(Get(x, "company"), "trade_name")>>
   ELSE <<>>)
  \o <<Get(x, "company_name"), Get(x, "name"), Get(x, "trade_name")>>

\* the first candidate that Test accepts, none when there is none
firstThat(cs, Test(_)) ==
  IF SelectSeq(cs, Test) = <<>> THEN None ELSE Head(SelectSeq(cs, Test))

isString(x) == x.t = "str"

legacyNameCase ==
  /\ step = "repaired" /\ data.t = "obj" /\ ~isModern(data) /\ isLegacy(data)

\* C25 as claimed: the company name of the legacy flat shape is the first candidate
\* that is a string, and "Unknown Company" when no candidate is a string.
C25_FirstStringCandidate ==
  legacyNameCase =>
    Get(entityOf(repaired), "name_brand") =
      IF firstThat(candidates(data), isString) = None THEN S("Unknown Company")
      ELSE firstThat(candidates(data), isString)

\* C25 amended: the company name of the legacy flat shape is the first candidate that
\* is truthy, when that is a string, and "Unknown Company" when the first truthy
\* candidate is no string or no candidate is truthy.
C25_FirstTruthyCandidate ==
  legacyNameCase =>
    Get(entityOf(repaired), "name_brand") =
      IF isString(firstThat(candidates(data), Truthy))
      THEN firstThat(candidates(data), Truthy)
      ELSE S("Unknown Company")

C25_Witness ==
  /\ legacyNameCase
  /\ firstThat(candidates(data), Truthy) = Num(42)
  /\ firstThat(candidates(data), isString) = S("Acme N")
  /\ Get(entityOf(repaired), "name_brand") = S("Unknown Company")

present(x, k) == Get(x, k) # Undef

\* what CASE 1 makes of the input: the default structure when it throws
modernOutcome == IF repairModern(data, day) = Thrown THEN defaultData ELSE repairModern(data, day)

\* C26 as claimed: an object-valued entity selects the modern shape; otherwise a
\* present company, company_name or name with an array products selects the legacy
\* shape; otherwise an object gives the default structure.
C26_ShapeByPresence ==
  (step = "repaired" /\ data.t = "obj") =>
    repaired =
      IF isModern(data) THEN modernOutcome
      ELSE IF (present(data, "company") \/ present(data, "company_name") \/ present(data, "name"))
              /\ IsArray(Get(data, "products"))
           THEN repairLegacy(data)
      ELSE defaultData

\* C26 amended: an object-valued entity selects the modern shape, also beside legacy
\* keys; otherwise a truthy company, company_name or name with an array products
\* selects the legacy shape; otherwise an object gives the default structure.
C26_ShapeByTruthiness ==
  (step = "repaired" /\ data.t = "obj") =>
    repaired =
      IF Truthy(entityOf(data)) /\ TypeOf(entityOf(data)) = "object" THEN modernOutcome
      ELSE IF (Truthy(Get(data, "company")) \/ Truthy(Get(data, "company_name"))
               \/ Truthy(Get(data, "name")))
              /\ IsArray(Get(data, "products"))
           THEN repairLegacy(data)
      ELSE defaultData

C26_Witness ==
  /\ step = "repaired" /\ entityOf(data).t = "obj"
  /\ Get(data, "company_name") = S("Legacy Co") /\ IsArray(Get(data, "products"))
  /\ Get(entityOf(repaired), "name_brand") = S("Acme")

\* C27: in every value repairAnalysisData returns no product carries products and no
\* competitor carries competitors or products.
C27_NoDeeperNesting ==
  step = "repaired" =>
    \A p \in 1..Len(productsOf(repaired)) :
      /\ Get(productsOf(repaired)[p], "products") = Undef
      /\ \A c \in 1..Len(listOf(productsOf(repaired)[p], "competitors")) :
           /\ Get(listOf(productsOf(repaired)[p], "competitors")[c], "competitors") = Undef
           /\ Get(listOf(productsOf(repaired)[p], "competitors")[c], "products") = Undef

C27_Witness ==
  /\ step = "repaired" /\ Len(productsOf(data)) >= 1
  /\ Len(listOf(firstProduct(data), "competitors")) >= 1
  /\ IsArray(Get(firstCompetitor(data), "competitors"))
  /\ Get(firstCompetitor(repaired), "name_brand") = Get(firstCompetitor(data), "name_brand")
  /\ Get(firstCompetitor(repaired), "competitors") = Undef

\* C29: transformToEnhancedCompanyData returns a projection for every input and every
\* company name, also for an input the validator rejects, and never throws.
C29_TransformTotal ==
  step = "projected" => result # Thrown

\* the multi strategy has assembled the analysis, no product having failed
multiAssembled == pc = "generated" /\ options.strategy = "multi"

\* x.details is one synthetic Detail
oneSyntheticDetail(x) ==
  /\ Len(listOf(x, "details")) = 1
  /\ Get(listOf(x, "details")[1], "type_research_detail") = S("market_share_estimate")
  /\ Get(listOf(x, "details")[1], "data_confidence") = S("high")
  /\ Get(listOf(x, "details")[1], "source_type") = S("analyst_estimate")
  /\ Get(listOf(x, "details")[1], "text_value").t = "str"

\* C28: the multi strategy assembles one product per entry of main_products and on
\* each product one competitor per entry of main_competitors, in the same order; each
\* product and each competitor carries exactly one synthetic Detail.
C28_SkeletonsCarryOneDetail ==
  multiAssembled =>
    LET info == getBasicCompanyInfo(companyName, response)
    IN /\ Len(productsOf(raw)) = Len(info.main_products)
       /\ \A p \in 1..Len(productsOf(raw)) :
            /\ Get(productsOf(raw)[p], "name_brand") = info.main_products[p]
            /\ oneSyntheticDetail(productsOf(raw)[p])
            /\ Len(listOf(productsOf(raw)[p], "competitors")) = Len(info.main_competitors)
            /\ \A c \in 1..Len(info.main_competitors) :
                 /\ Get(listOf(productsOf(raw)[p], "competitors")[c], "name_brand")
                      = info.main_competitors[c]
                 /\ oneSyntheticDetail(listOf(productsOf(raw)[p], "competitors")[c])

\* C30: processCompanyAnalysis at the level transformedOpenAI leaves the analysis of
\* the generation strategy as it was: the step that returns does not change it.
C30_RawUnchanged ==
  [][(pc = "generated" /\ options.sourceType \in {"", "transformedOpenAI"}) => raw' = raw]_vars

\* the request with the other value of debug
twin == [options EXCEPT !.debug = ~options.debug]

\* what the generation strategy of a request with the options opts resolves with
generatedBy(opts) ==
  IF opts.strategy = "multi" THEN processMultiStepAnalysis(companyName, response, day)
  ELSE processSingleStepAnalysis(response)

\* C21: the value processCompanyAnalysis returns is the value it returns for the same
\* company name, answer and other options with the other value of debug, and it fails
\* exactly when that request fails.
C21_DebugOnlyLogs ==
  /\ pc = "returned" => /\ generatedBy(twin) # Thrown
                        /\ result = processLevel(generatedBy(twin), twin, day)
  /\ pc = "failed" => generatedBy(twin) = Thrown

C21_Witness ==
  /\ pc = "returned" /\ options.debug /\ ~env
  /\ logged = <<"Repaired data (legacy format)">>
  /\ processLogs(generatedBy(twin), twin, env, day) = <<>>
  /\ result = processLevel(generatedBy(twin), twin, day)
  /\ Get(entityOf(result), "name_brand") = S("Acme")

\* what the call r resolves with when it runs alone
alone(r) ==
  processLevel(processSingleStepAnalysis(requests[r].response), requests[r].options, day)

\* the addresses the call r holds
held(r) == {requests[r].raw.meta, requests[r].result.meta} \ {NoAddress}

\* C22: whatever the interleaving of the calls, each call resolves with the value it
\* resolves with alone and keeps it while the others run, it fails when it fails
\* alone, and no object that a call reads or writes is an object of another call.
C22_RequestsAreIndependent ==
  /\ \A r \in RequestIds :
       /\ requests[r].pc = "returned" => deref(heap, requests[r].result) = alone(r)
       /\ requests[r].pc = "failed" =>
            processSingleStepAnalysis(requests[r].response) = Thrown
       /\ \A a \in held(r) : a.owner = r
  /\ \A a \in DOMAIN heap : a.owner \in RequestIds

C22_Witness ==
  /\ requests[1].pc = "returned" /\ requests[2].pc = "generated"
  /\ requests[1].options.sourceType = "transformedOpenAI"
  /\ requests[2].options.sourceType = "transformedOpenAI"
  /\ requests[1].response = requests[2].response
  /\ requests[1].result.body = defaultData
  /\ Get(heap[requests[1].result.meta], "validation") = S("repaired")
  /\ Get(heap[requests[2].raw.meta], "validation") = Undef

====
